---------------------------- MODULE Spec2Model ----------------------------
(***************************************************************************)
(* Dynamic pricing for handmade goods: the market-intelligence cache       *)
(* (src/Agents/agents/market_intelligence.py) and the pricing agent that   *)
(* scores, prices and validates against it                                 *)
(* (src/Agents/agents/pricing_agent.py), with the two refresh triggers     *)
(* (src/api/main2.0.py, src/Agents/update_market_trends.py).               *)
(*                                                                         *)
(* Numbers.  Python floats are modelled in fixed point: money in           *)
(* thousandths of a rupee, scores in thousandths of a point, interest      *)
(* means in hundredths.  Products are exact; quotients truncate.           *)
(* Text.  Python strings are sequences of one-character strings, so that   *)
(* lower(), join() and the substring test `kw in text` are computed.       *)
(***************************************************************************)
EXTENDS Integers, Sequences, FiniteSets, TLC

\* ------------------------------------------------------------- numbers
\* Fixed-point unit of money and of scores (thousandths).
Milli == 1000
\* Fixed-point unit of an interest mean (hundredths).
Centi == 100

Min(a, b) == IF a <= b THEN a ELSE b
Max(a, b) == IF a >= b THEN a ELSE b

\* round(x, 2) of an amount held in thousandths: to the nearest hundredth.
Round2(x) == ((x + 5) \div 10) * 10

\* ------------------------------------------------------------- text
\* str.lower() on one character.
LowerChar(c) ==
  CASE c = "A" -> "a" [] c = "B" -> "b" [] c = "C" -> "c" [] c = "D" -> "d"
    [] c = "E" -> "e" [] c = "F" -> "f" [] c = "G" -> "g" [] c = "H" -> "h"
    [] c = "I" -> "i" [] c = "J" -> "j" [] c = "K" -> "k" [] c = "L" -> "l"
    [] c = "M" -> "m" [] c = "N" -> "n" [] c = "O" -> "o" [] c = "P" -> "p"
    [] c = "Q" -> "q" [] c = "R" -> "r" [] c = "S" -> "s" [] c = "T" -> "t"
    [] c = "U" -> "u" [] c = "V" -> "v" [] c = "W" -> "w" [] c = "X" -> "x"
    [] c = "Y" -> "y" [] c = "Z" -> "z" [] OTHER -> c

\* str.lower()
Lower(s) == [k \in 1..Len(s) |-> LowerChar(s[k])]

\* `kw in text` on strings: kw occurs as a contiguous substring.
Contains(text, kw) ==
  \E k \in 0..(Len(text) - Len(kw)) : \A j \in 1..Len(kw) : text[k + j] = kw[j]

\* any(kw in text for kw in kws)
AnyIn(kws, text) == \E n \in 1..Len(kws) : Contains(text, kws[n])

\* sep.join(items) on a sequence of strings.
RECURSIVE Join(_, _)
Join(sep, items) ==
  IF items = <<>> THEN <<>>
  ELSE IF Len(items) = 1 THEN items[1]
  ELSE items[1] \o sep \o Join(sep, Tail(items))

\* items[:n]
Take(items, n) == SubSeq(items, 1, Min(n, Len(items)))

\* ------------------------------------------------------------- Python values
\* A value of the narrative-attributes object: a missing key, None, a
\* non-string scalar, a string, or a list of values.
PyAbsent == [t |-> "absent", s |-> <<>>, items |-> <<>>]
PyNone == [t |-> "none", s |-> <<>>, items |-> <<>>]
PyNum == [t |-> "num", s |-> <<>>, items |-> <<>>]
PyStr(s) == [t |-> "str", s |-> s, items |-> <<>>]
PyList(items) == [t |-> "list", s |-> <<>>, items |-> items]

\* dict.get(key, default)
Get(v, default) == IF v.t = "absent" THEN default ELSE v

\* sep.join(v) succeeds: v is a string or a list of strings.
Joinable(v) ==
  \/ v.t = "str"
  \/ v.t = "list" /\ \A k \in 1..Len(v.items) : v.items[k].t = "str"

\* sep.join(v) for a joinable v (a string joins its characters).
JoinPy(sep, v) ==
  IF v.t = "str" THEN Join(sep, [k \in 1..Len(v.s) |-> <<v.s[k]>>])
  ELSE Join(sep, [k \in 1..Len(v.items) |-> v.items[k].s])

\* bool(v)
Truthy(v) ==
  \/ v.t = "num"
  \/ v.t = "str" /\ v.s # <<>>
  \/ v.t = "list" /\ v.items # <<>>

\* len(v) succeeds
HasLen(v) == v.t \in {"str", "list"}

\* len(v)
PyLen(v) == IF v.t = "str" THEN Len(v.s) ELSE Len(v.items)

\* v[:n] for a string or a list
PySlice(v, n) ==
  IF v.t = "str" THEN PyStr(Take(v.s, n)) ELSE PyList(Take(v.items, n))

\* A scorer's outcome: a returned value or a raised exception.
Returned(v) == [ok |-> TRUE, v |-> v, err |-> ""]
Raised(e) == [ok |-> FALSE, v |-> 0, err |-> e]

\* ------------------------------------------------------------- keyword tables
religious_keywords ==
  << <<"r","e","l","i","g","i","o","u","s">>,
     <<"s","p","i","r","i","t","u","a","l">>,
     <<"t","e","m","p","l","e">>,
     <<"w","o","r","s","h","i","p">>,
     <<"d","e","i","t","y">>,
     <<"g","a","n","e","s","h","a">>,
     <<"k","r","i","s","h","n","a">>,
     <<"d","u","r","g","a">>,
     <<"d","i","w","a","l","i">>,
     <<"h","o","l","i">>,
     <<"f","e","s","t","i","v","a","l">> >>

rare_techniques ==
  << <<"k","u","t","c","h"," ","p","o","t","t","e","r","y">>,
     <<"m","a","n","j","u","s","h","a"," ","a","r","t">>,
     <<"k","a","l","a","m","k","a","r","i">>,
     <<"w","a","r","l","i">>,
     <<"m","a","d","h","u","b","a","n","i">> >>

heritage_regions ==
  << <<"r","a","j","a","s","t","h","a","n">>,
     <<"k","u","t","c","h">>,
     <<"g","u","j","a","r","a","t">> >>

lineage_words ==
  << <<"g","e","n","e","r","a","t","i","o","n","a","l">>,
     <<"t","r","a","d","i","t","i","o","n","a","l">> >>

advanced_techniques ==
  << <<"h","a","n","d","_","p","a","i","n","t","e","d">>,
     <<"h","a","n","d"," ","p","a","i","n","t","e","d">>,
     <<"h","a","n","d","p","a","i","n","t","e","d">>,
     <<"h","a","n","d","-","p","a","i","n","t","e","d">>,
     <<"e","m","b","r","o","i","d","e","r","y">>,
     <<"e","m","b","r","o","i","d","e","r","e","d">>,
     <<"f","i","l","i","g","r","e","e">>,
     <<"i","n","l","a","y","_","w","o","r","k">>,
     <<"i","n","l","a","y"," ","w","o","r","k">>,
     <<"i","n","l","a","y">>,
     <<"d","a","m","a","s","c","e","n","e">>,
     <<"m","e","e","n","a","k","a","r","i">>,
     <<"m","i","n","a","k","a","r","i">>,
     <<"z","a","r","d","o","z","i">>,
     <<"z","a","r","d","o","z","i"," ","w","o","r","k">>,
     <<"b","l","o","c","k"," ","p","r","i","n","t">>,
     <<"b","l","o","c","k"," ","p","r","i","n","t","i","n","g">>,
     <<"t","i","e"," ","d","y","e">>,
     <<"b","a","n","d","h","a","n","i">>,
     <<"t","i","e","-","d","y","e">>,
     <<"k","a","l","a","m","k","a","r","i">>,
     <<"w","a","r","l","i">>,
     <<"m","a","d","h","u","b","a","n","i">>,
     <<"p","a","t","t","a","c","h","i","t","r","a">>,
     <<"p","e","a","c","o","c","k">>,
     <<"l","o","t","u","s">>,
     <<"g","e","o","m","e","t","r","i","c"," ","p","a","t","t","e","r","n","s">>,
     <<"i","n","t","r","i","c","a","t","e">>,
     <<"d","e","t","a","i","l","e","d">>,
     <<"m","u","l","t","i","-","l","a","y","e","r","e","d">> >>

painted_words ==
  << <<"h","a","n","d","-","p","a","i","n","t","e","d">>,
     <<"h","a","n","d","p","a","i","n","t","e","d">>,
     <<"h","a","n","d"," ","p","a","i","n","t","e","d">> >>

intricate_words ==
  << <<"i","n","t","r","i","c","a","t","e">>,
     <<"d","e","t","a","i","l","e","d">>,
     <<"e","l","a","b","o","r","a","t","e">> >>

layered_words ==
  << <<"m","u","l","t","i","-","l","a","y","e","r","e","d">>,
     <<"m","u","l","t","i","-","c","o","l","o","r","e","d">>,
     <<"m","u","l","t","i","c","o","l","o","r","e","d">> >>

motif_words ==
  << <<"p","e","a","c","o","c","k">>,
     <<"l","o","t","u","s">>,
     <<"f","l","o","r","a","l">> >>

time_words ==
  << <<"h","o","u","r","s">>,
     <<"d","a","y","s">>,
     <<"w","e","e","k","s">>,
     <<"t","i","m","e","-","c","o","n","s","u","m","i","n","g">> >>


\* ------------------------------------------------------------- market intelligence
\* craft_keywords.keys(), in insertion order.
Categories ==
  << "pottery", "embroidery", "jewelry", "textile",
     "woodwork", "metalwork", "painting", "leather" >>

CategorySet == {Categories[k] : k \in 1..Len(Categories)}

\* regional_keywords.keys(), in insertion order.
Regions ==
  << "rajasthan", "gujarat", "kerala", "west bengal",
     "madhya pradesh", "uttar pradesh", "karnataka", "tamil nadu" >>

\* list(self.regional_keywords.keys())[:3]
RefreshRegions == Take(Regions, 3)

\* self.seasonal_keywords[:5]
seasonal_keywords ==
  << "diwali gifts", "wedding gifts india", "holi colors",
     "raksha bandhan gifts", "christmas decorations india" >>

\* cache['last_updated'] of a cache that was never refreshed (None).
NoTime == -1

\* The trend score and direction used when the provider gives nothing.
DefaultTrendScore == 50
DefaultRegionalScore == 50

\* 'range' of the seed table, in rupees.
SeedRange ==
  [ pottery |-> <<100, 400>>, embroidery |-> <<200, 600>>,
    jewelry |-> <<300, 1000>>, textile |-> <<150, 500>>,
    woodwork |-> <<150, 450>>, metalwork |-> <<250, 700>>,
    painting |-> <<250, 800>>, leather |-> <<150, 450>> ]

\* 'avg_markup' of the seed table, in rupees.
SeedMarkup ==
  [ pottery |-> 200, embroidery |-> 350, jewelry |-> 500, textile |-> 300,
    woodwork |-> 275, metalwork |-> 425, painting |-> 475, leather |-> 275 ]

\* 'demand' of the seed table.
SeedDemand ==
  [ pottery |-> "medium", embroidery |-> "high", jewelry |-> "very_high",
    textile |-> "high", woodwork |-> "medium", metalwork |-> "medium",
    painting |-> "high", leather |-> "medium" ]

\* A dict with no keys.
EmptyDict == [k \in {} |-> 0]

\* One seed record, stamped with the construction time t.  `form` names the
\* keys and value types of the record ("ok": all keys, as the code writes
\* them); range.py is the Python type holding the pair.
SeedRecord(c, t) ==
  [ form |-> "ok",
    range |-> [lo |-> SeedRange[c][1] * Milli, hi |-> SeedRange[c][2] * Milli,
               py |-> "tuple"],
    avg_markup |-> SeedMarkup[c] * Milli,
    demand |-> SeedDemand[c],
    trend_score |-> DefaultTrendScore,
    trend_direction |-> "stable",
    last_updated |-> t ]

\* _get_default_cache(), called at time t.
DefaultCache(t) ==
  [ last_updated |-> NoTime,
    categories |-> [c \in CategorySet |-> SeedRecord(c, t)],
    regional_trends |-> EmptyDict,
    seasonal_trends |-> EmptyDict,
    trending_crafts |-> <<>> ]

\* The persistent store: no file, a file opened for writing and not yet
\* written (not a JSON document), or a JSON document.
FileAbsent == [kind |-> "absent", doc |-> DefaultCache(NoTime)]
FileTruncated == [kind |-> "truncated", doc |-> DefaultCache(NoTime)]
FileJson(doc) == [kind |-> "json", doc |-> doc]

\* json.dump(cache): a tuple is written as an array, so every range is a
\* list when read back.
Serialize(cache) ==
  [cache EXCEPT !.categories =
     [c \in DOMAIN cache.categories |->
        [cache.categories[c] EXCEPT !.range.py = "list"]]]

\* _load_cache() when the stored document is ignored.
LoadCacheSeed(f, t) == DefaultCache(t)

\* _load_cache() at time t: the parsed document if the file exists and
\* parses, else the default cache.
LoadCache(f, t) == IF f.kind = "json" THEN f.doc ELSE DefaultCache(t)

\* What the provider gives for one keyword: an error, an empty frame, or a
\* series with its recent mean and overall mean (hundredths).
ProviderError == [kind |-> "error", recent |-> 0, overall |-> 0]
ProviderEmpty == [kind |-> "empty", recent |-> 0, overall |-> 0]
Series(recent, overall) == [kind |-> "series", recent |-> recent, overall |-> overall]

\* The series drawn for a category the scenario lets vary.
SeriesRising == Series(80 * Centi, 60 * Centi)
SeriesSteady == Series(60 * Centi, 60 * Centi)
SeriesFalling == Series(30 * Centi, 60 * Centi)
SeriesZero == Series(0, 0)

\* The ceiling of category c's seed range, in thousandths of a rupee.
SeedCeiling(c) == SeedRange[c][2] * Milli

\* fetch_craft_trends(category): the trend data derived from the provider's
\* answer o; the defaults when the provider is missing, fails or has no data.
fetch_craft_trends(pytrends, o) ==
  IF ~pytrends \/ o.kind # "series"
  THEN [trend_score |-> DefaultTrendScore, trend_direction |-> "stable"]
  ELSE [ trend_score |->
           IF o.recent > 0 THEN o.recent \div Centi ELSE DefaultTrendScore,
         trend_direction |->
           IF o.recent * 100 > o.overall * 115 THEN "rising"
           ELSE IF o.recent * 100 < o.overall * 85 THEN "falling"
           ELSE "stable" ]

\* The body of the category loop when the ceiling adjustment is written to
\* every record of the cache instead of the category's own.
UpdateCategoryShared(cache, category, trend_data, t) ==
  IF category \notin DOMAIN cache.categories THEN cache
  ELSE
    LET Scaled(hi) ==
          IF trend_data.trend_direction = "rising" THEN (hi * 11) \div 10
          ELSE IF trend_data.trend_direction = "falling" THEN (hi * 19) \div 20
          ELSE hi
        Moved(rec) ==
          IF trend_data.trend_direction = "stable" THEN rec
          ELSE [rec EXCEPT !.range = [lo |-> rec.range.lo, hi |-> Scaled(rec.range.hi),
                                      py |-> "tuple"]]
    IN [cache EXCEPT !.categories =
          [c \in DOMAIN cache.categories |->
             IF c = category
             THEN [Moved(cache.categories[c]) EXCEPT
                     !.trend_score = trend_data.trend_score,
                     !.trend_direction = trend_data.trend_direction,
                     !.last_updated = t]
             ELSE Moved(cache.categories[c])]]

\* The body of the category loop when a category missing from the cache is
\* given its seed record before the trend data is written.
UpdateCategoryAdding(cache, category, trend_data, t) ==
  LET Written(old) ==
        [old EXCEPT !.trend_score = trend_data.trend_score,
                    !.trend_direction = trend_data.trend_direction,
                    !.range =
                      IF trend_data.trend_direction = "rising"
                      THEN [lo |-> old.range.lo, hi |-> (old.range.hi * 11) \div 10,
                            py |-> "tuple"]
                      ELSE IF trend_data.trend_direction = "falling"
                      THEN [lo |-> old.range.lo, hi |-> (old.range.hi * 19) \div 20,
                            py |-> "tuple"]
                      ELSE old.range,
                    !.last_updated = t]
  IN [cache EXCEPT !.categories =
        (category :> Written(IF category \in DOMAIN cache.categories
                             THEN cache.categories[category]
                             ELSE SeedRecord(category, t))) @@ @]

\* The body of the category loop of update_market_cache for one category:
\* the record's trend fields, its ceiling and its timestamp.
UpdateCategory(cache, category, trend_data, t) ==
  IF category \notin DOMAIN cache.categories THEN cache
  ELSE
    LET old == cache.categories[category]
        new_max ==
          IF trend_data.trend_direction = "rising" THEN (old.range.hi * 11) \div 10
          ELSE IF trend_data.trend_direction = "falling" THEN (old.range.hi * 19) \div 20
          ELSE old.range.hi
        new_range ==
          IF trend_data.trend_direction = "stable" THEN old.range
          ELSE [lo |-> old.range.lo, hi |-> new_max, py |-> "tuple"]
    IN [cache EXCEPT !.categories[category] =
          [old EXCEPT !.trend_score = trend_data.trend_score,
                      !.trend_direction = trend_data.trend_direction,
                      !.range = new_range,
                      !.last_updated = t]]

\* fetch_regional_trends(region): int(mean), or 50 on no provider, error or
\* empty frame.  The mean is o.overall.
fetch_regional_trends(pytrends, o) ==
  IF ~pytrends \/ o.kind # "series" THEN DefaultRegionalScore
  ELSE o.overall \div Centi

\* The multiplier fetch_seasonal_trends derives from a score (thousandths).
SeasonalMultiplier(score) ==
  IF score > 70 THEN 1300
  ELSE IF score > 50 THEN 1200
  ELSE IF score > 30 THEN 1100
  ELSE 1000

\* fetch_seasonal_trends(): o.kind "error" gives {}; otherwise one entry per
\* keyword that is a column of the frame (o.means: keyword -> last-week mean
\* in hundredths).
fetch_seasonal_trends(pytrends, o) ==
  IF ~pytrends \/ o.kind = "error" THEN EmptyDict
  ELSE [ kw \in {seasonal_keywords[k] : k \in 1..Len(seasonal_keywords)}
                  \cap DOMAIN o.means |->
           LET score == o.means[kw] \div Centi
           IN [ score |-> score,
                multiplier |-> SeasonalMultiplier(score),
                active |-> score > 30 ] ]

\* keywords[0] of each category: the keyword sent to the provider.
FirstKeyword ==
  [ pottery |-> "indian pottery", embroidery |-> "indian embroidery",
    jewelry |-> "handmade jewelry india", textile |-> "handloom textile",
    woodwork |-> "wooden handicraft", metalwork |-> "brass handicraft",
    painting |-> "madhubani painting", leather |-> "leather handicraft" ]

\* Keywords compared in one provider request of get_trending_crafts.
TrendingBatchSize == 5

\* The number of requests get_trending_crafts makes: range(0, 8, 5).
TrendingBatches == (Len(Categories) + TrendingBatchSize - 1) \div TrendingBatchSize

\* all_keywords[i:i+5] of batch b (1-based), named by category.
TrendingBatch(b) ==
  SubSeq(Categories, (b - 1) * TrendingBatchSize + 1,
         Min(b * TrendingBatchSize, Len(Categories)))

\* Answers of the provider to a multi-keyword request: an error, an empty
\* frame, or the last-week means (hundredths) by keyword.
MeansError == [kind |-> "error", means |-> EmptyDict]
MeansEmpty == [kind |-> "empty", means |-> EmptyDict]
MeansData(means) == [kind |-> "data", means |-> means]

\* Index of the first largest mean among the categories of seq.
ArgMax(seq, means) ==
  CHOOSE k \in 1..Len(seq) :
    /\ \A j \in 1..Len(seq) : means[seq[j]] <= means[seq[k]]
    /\ \A j \in 1..(k - 1) : means[seq[j]] < means[seq[k]]

\* seq without its k-th element.
Without(seq, k) == SubSeq(seq, 1, k - 1) \o SubSeq(seq, k + 1, Len(seq))

\* recent_means.nlargest(2): the two largest, largest first.
NLargest2(seq, means) ==
  IF seq = <<>> THEN <<>>
  ELSE LET k1 == ArgMax(seq, means)
           rest == Without(seq, k1)
       IN IF rest = <<>> THEN <<seq[k1]>>
          ELSE <<seq[k1], rest[ArgMax(rest, means)]>>

\* The entries one batch appends to `trending`: of its two largest means,
\* those above 60.
BatchEntries(b, o) ==
  IF o.kind # "data" THEN <<>>
  ELSE LET top == NLargest2(TrendingBatch(b), o.means)
           entry(c) == [category |-> c, score |-> o.means[c] \div Centi,
                        keyword |-> FirstKeyword[c]]
       IN SelectSeq([k \in 1..Len(top) |-> entry(top[k])],
                    LAMBDA e : o.means[e.category] > 60 * Centi)

\* e placed after every element of the descending sequence s whose score is
\* at least e.score (a stable insertion).
RECURSIVE InsertDesc(_, _)
InsertDesc(e, s) ==
  IF s = <<>> THEN <<e>>
  ELSE IF s[1].score >= e.score THEN <<s[1]>> \o InsertDesc(e, Tail(s))
  ELSE <<e>> \o s

\* trending.sort(key=score, reverse=True): stable, descending.
RECURSIVE SortDesc(_)
SortDesc(s) ==
  IF s = <<>> THEN <<>>
  ELSE InsertDesc(s[Len(s)], SortDesc(SubSeq(s, 1, Len(s) - 1)))

\* The value get_trending_crafts returns from the accumulated entries.
TopTrending(acc) == Take(SortDesc(acc), 5)

\* get_category_multiplier(category), in thousandths.
get_category_multiplier(cache, category) ==
  IF category \notin DOMAIN cache.categories THEN 1000
  ELSE LET trend_score == cache.categories[category].trend_score
       IN IF trend_score > 80 THEN 1200
          ELSE IF trend_score > 65 THEN 1150
          ELSE IF trend_score > 50 THEN 1050
          ELSE IF trend_score > 35 THEN 1000
          ELSE IF trend_score > 20 THEN 950
          ELSE 900

\* The largest of a set of numbers, or d for the empty set.
MaxOf(S, d) == IF S = {} THEN d ELSE CHOOSE x \in S : \A y \in S : y <= x

\* get_active_seasonal_multiplier(), in thousandths.
get_active_seasonal_multiplier(cache) ==
  MaxOf({cache.seasonal_trends[kw].multiplier :
           kw \in {k \in DOMAIN cache.seasonal_trends :
                     cache.seasonal_trends[k].active}} \cup {1000}, 1000)

\* Clock ticks in a day, and the age in days at which the cache is stale.
TicksPerDay == 4
StaleDays == 7

\* cache['last_updated'] read from a document whose value is a string that
\* datetime.fromisoformat rejects.
BadTime == -2

\* should_update_cache() when the age is counted in clock ticks.
ShouldUpdateInTicks(cache, t) ==
  \/ cache.last_updated = NoTime
  \/ cache.last_updated = BadTime
  \/ t - cache.last_updated >= StaleDays

\* should_update_cache() at time t: True without a timestamp, True when
\* parsing it raises, else whether its age in whole days is at least 7.
should_update_cache(cache, t) ==
  \/ cache.last_updated = NoTime
  \/ cache.last_updated = BadTime
  \/ (t - cache.last_updated) \div TicksPerDay >= StaleDays

\* get_market_cache() when a stale cache is refreshed before it is returned.
GetMarketCacheAuto(cache, t) ==
  [ cache |-> cache, stale |-> should_update_cache(cache, t),
    refreshed |-> should_update_cache(cache, t) ]

\* get_market_cache() at time t: the cache, whether it was reported as
\* outdated, and whether update_market_cache was called (it never is).
get_market_cache(cache, t) ==
  [ cache |-> cache, stale |-> should_update_cache(cache, t), refreshed |-> FALSE ]

\* ------------------------------------------------------------- pricing agent
\* The narrative attributes (storyteller_output): each key is a Python value;
\* overview is missing, None, a non-dict scalar, or a dict with a region.
Overview(t, region) == [t |-> t, region |-> region]
OverviewAbsent == Overview("absent", PyAbsent)

\* The empty defaults of dict.get.
EmptyList == PyList(<<>>)
EmptyStr == PyStr(<<>>)

\* storyteller_output.get("overview", {}).get("region", "").lower(): raises
\* AttributeError when overview is not a dict or region is not a string.
RegionLower(story) ==
  IF story.overview.t = "absent" THEN Returned(<<>>)
  ELSE IF story.overview.t # "dict" THEN Raised("AttributeError")
  ELSE LET region == Get(story.overview.region, EmptyStr)
       IN IF region.t # "str" THEN Raised("AttributeError")
          ELSE Returned(Lower(region.s))

\* _analyze_heritage_value(storyteller_output), in thousandths of a point.
analyze_heritage_value(story) ==
  LET prompts == Get(story.image_prompts, EmptyList)
      title == Get(story.story_title, EmptyStr)
  IN IF ~Joinable(prompts) \/ title.t # "str" THEN Raised("TypeError")
     ELSE
       LET story_text_lower == Lower(JoinPy(<<" ">>, prompts) \o <<" ">> \o title.s)
           region == RegionLower(story)
       IN IF ~region.ok THEN region
          ELSE Returned(Min(10000,
                 (IF AnyIn(religious_keywords, story_text_lower) THEN 3000 ELSE 0)
               + (IF AnyIn(rare_techniques, story_text_lower) THEN 4000 ELSE 0)
               + (IF AnyIn(heritage_regions, region.v) THEN 2000 ELSE 0)
               + (IF AnyIn(lineage_words, story_text_lower) THEN 1000 ELSE 0)))

\* _heuristic_complexity_analysis(product_description, storyteller_output)
heuristic_complexity_analysis(desc, story) ==
  LET elements == Get(story.cultural_elements, EmptyList)
      prompts == Get(story.image_prompts, EmptyList)
  IN IF desc.t # "str" THEN Raised("AttributeError")
     ELSE IF ~HasLen(elements) \/ ~Joinable(prompts) THEN Raised("TypeError")
     ELSE
       LET desc_lower == Lower(desc.s)
           story_text == Lower(JoinPy(<<" ">>, prompts))
           score == 5000
             + (IF AnyIn(painted_words, desc_lower) THEN 1500 ELSE 0)
             + (IF AnyIn(intricate_words, desc_lower) THEN 1000 ELSE 0)
             + (IF AnyIn(layered_words, desc_lower) THEN 1000 ELSE 0)
             + (IF AnyIn(motif_words, desc_lower) THEN 1000 ELSE 0)
             + (IF PyLen(elements) > 3 THEN 1000 ELSE 0)
             + (IF AnyIn(time_words, story_text) THEN 1000 ELSE 0)
       IN Returned(Min(10000, Max(1000, score)))

\* What self.model.generate_content gives: an exception, or a text whose
\* first number is `number` thousandths (NoNumber when it holds no number).
NoNumber == -1
EstimateRaises == [kind |-> "raise", number |-> NoNumber]
EstimateText(number) == [kind |-> "text", number |-> number]

\* The number of advanced techniques that occur in the text.
TechniqueCount(full_text) ==
  Cardinality({n \in 1..Len(advanced_techniques) :
                 Contains(full_text, advanced_techniques[n])})

\* The try block of _analyze_complexity: the value it returns, or the
\* exception raised inside it.
ComplexityTry(desc, story, ai) ==
  LET prompts == Get(story.image_prompts, EmptyList)
      elements == Get(story.cultural_elements, EmptyList)
  IN IF Truthy(prompts) /\ (~HasLen(prompts) \/ ~Joinable(PySlice(prompts, 3)))
       THEN Raised("TypeError")
     ELSE IF ~Joinable(elements) THEN Raised("TypeError")
     ELSE IF ai.kind = "raise" THEN Raised("ProviderError")
     ELSE
       LET WithBonus(base) ==
             IF ~base.ok THEN base
             ELSE IF desc.t # "str" THEN Raised("AttributeError")
             ELSE IF ~Joinable(prompts) THEN Raised("TypeError")
             ELSE
               LET full_text == Lower(desc.s) \o <<" ">> \o Lower(JoinPy(<<" ">>, prompts))
                                  \o <<" ">> \o Lower(JoinPy(<<" ">>, elements))
                   technique_bonus == Min(3000, 500 * TechniqueCount(full_text))
               IN Returned(Min(10000, base.v + technique_bonus))
       IN WithBonus(IF ai.number # NoNumber
                    THEN Returned(Max(1000, Min(10000, ai.number)))
                    ELSE heuristic_complexity_analysis(desc, story))

\* _analyze_complexity when the exception of the try block is let out.
AnalyzeComplexityNoFallback(desc, story, ai) == ComplexityTry(desc, story, ai)

\* _analyze_complexity: any exception of the try block falls back to the
\* heuristic, whose own exception is not caught.
analyze_complexity(desc, story, ai) ==
  LET Except(attempt) ==
        IF attempt.ok THEN attempt ELSE heuristic_complexity_analysis(desc, story)
  IN Except(ComplexityTry(desc, story, ai))

\* The categories _detect_craft_category tests, in order, with their words.
CategoryWords ==
  << [ category |-> "pottery",
       words |-> << <<"p","o","t">>, <<"p","o","t","t","e","r","y">>, <<"c","l","a","y">>,
                    <<"c","e","r","a","m","i","c">>,
                    <<"t","e","r","r","a","c","o","t","t","a">> >> ],
     [ category |-> "embroidery",
       words |-> << <<"e","m","b","r","o","i","d","e","r","y">>,
                    <<"e","m","b","r","o","i","d","e","r","e","d">>,
                    <<"s","t","i","t","c","h">>, <<"n","e","e","d","l","e","w","o","r","k">>,
                    <<"z","a","r","d","o","z","i">> >> ],
     [ category |-> "jewelry",
       words |-> << <<"j","e","w","e","l","r","y">>, <<"j","e","w","e","l","l","e","r","y">>,
                    <<"n","e","c","k","l","a","c","e">>, <<"e","a","r","r","i","n","g">>,
                    <<"b","a","n","g","l","e">> >> ],
     [ category |-> "textile",
       words |-> << <<"t","e","x","t","i","l","e">>, <<"f","a","b","r","i","c">>,
                    <<"c","l","o","t","h">>, <<"s","a","r","e","e">>,
                    <<"d","u","p","a","t","t","a">>, <<"w","e","a","v","i","n","g">> >> ],
     [ category |-> "woodwork",
       words |-> << <<"w","o","o","d">>, <<"w","o","o","d","e","n">>,
                    <<"c","a","r","v","i","n","g">>, <<"c","a","r","v","e","d">> >> ],
     [ category |-> "metalwork",
       words |-> << <<"m","e","t","a","l">>, <<"b","r","a","s","s">>,
                    <<"c","o","p","p","e","r">>, <<"s","i","l","v","e","r">>,
                    <<"g","o","l","d">>, <<"f","i","l","i","g","r","e","e">> >> ],
     [ category |-> "painting",
       words |-> << <<"p","a","i","n","t","i","n","g">>, <<"p","a","i","n","t","e","d">>,
                    <<"w","a","r","l","i">>, <<"m","a","d","h","u","b","a","n","i">>,
                    <<"p","a","t","t","a","c","h","i","t","r","a">> >> ],
     [ category |-> "leather",
       words |-> << <<"l","e","a","t","h","e","r">>, <<"h","i","d","e">>,
                    <<"s","k","i","n">> >> ] >>

\* The last category one of whose words occurs in the text, from the k-th
\* on; pottery when none does.
RECURSIVE LastCategory(_, _)
LastCategory(text, k) ==
  IF k > Len(CategoryWords) THEN "pottery"
  ELSE IF \E j \in (k + 1)..Len(CategoryWords) : AnyIn(CategoryWords[j].words, text)
    THEN LastCategory(text, k + 1)
  ELSE IF AnyIn(CategoryWords[k].words, text) THEN CategoryWords[k].category
  ELSE "pottery"

\* The first category one of whose words occurs in the text, from the k-th
\* on, when a text that names none is given a category of its own.
RECURSIVE FirstCategoryOrUnknown(_, _)
FirstCategoryOrUnknown(text, k) ==
  IF k > Len(CategoryWords) THEN "unknown"
  ELSE IF AnyIn(CategoryWords[k].words, text) THEN CategoryWords[k].category
  ELSE FirstCategoryOrUnknown(text, k + 1)

\* The first category one of whose words occurs in the text, from the k-th
\* on; pottery when none does.
RECURSIVE FirstCategory(_, _)
FirstCategory(text, k) ==
  IF k > Len(CategoryWords) THEN "pottery"
  ELSE IF AnyIn(CategoryWords[k].words, text) THEN CategoryWords[k].category
  ELSE FirstCategory(text, k + 1)

\* _detect_craft_category(product_description, storyteller_output)
detect_craft_category(desc, story) ==
  LET elements == Get(story.cultural_elements, EmptyList)
  IN IF desc.t # "str" THEN Raised("AttributeError")
     ELSE IF ~Joinable(elements) THEN Raised("TypeError")
     ELSE Returned(FirstCategory(
            Lower(desc.s) \o <<" ">> \o Lower(JoinPy(<<" ">>, elements)), 1))

\* regional_demand of _analyze_market_demand: weight * 10, in thousandths.
regional_demand ==
  << [reg |-> <<"r","a","j","a","s","t","h","a","n">>, base |-> 9000],
     [reg |-> <<"g","u","j","a","r","a","t">>, base |-> 8500],
     [reg |-> <<"m","a","d","h","y","a"," ","p","r","a","d","e","s","h">>, base |-> 8000],
     [reg |-> <<"k","e","r","a","l","a">>, base |-> 7500],
     [reg |-> <<"k","a","r","n","a","t","a","k","a">>, base |-> 7500],
     [reg |-> <<"w","e","s","t"," ","b","e","n","g","a","l">>, base |-> 8000],
     [reg |-> <<"o","d","i","s","h","a">>, base |-> 7000],
     [reg |-> <<"t","a","m","i","l"," ","n","a","d","u">>, base |-> 7500],
     [reg |-> <<"u","t","t","a","r"," ","p","r","a","d","e","s","h">>, base |-> 8000] >>

\* The base score of the first region of regional_demand that occurs in the
\* text, from the k-th on; 5.0 when none does.
RECURSIVE RegionalBase(_, _)
RegionalBase(region, k) ==
  IF k > Len(regional_demand) THEN 5000
  ELSE IF Contains(region, regional_demand[k].reg) THEN regional_demand[k].base
  ELSE RegionalBase(region, k + 1)

\* The manual seasonal table used without market intelligence: the
\* multiplier of the first season that holds the month (thousandths).
ManualSeasonal(month) ==
  IF month \in {10, 11} THEN 1300
  ELSE IF month \in {11, 12, 1, 2} THEN 1200
  ELSE IF month \in {3} THEN 1100
  ELSE 1000

\* The try block of _analyze_market_demand applied to base_score: an
\* exception inside it leaves the score as far as it had been multiplied.
TrendAdjusted(base_score, desc, story, ag) ==
  LET Multiplied(trended, seasonal) ==
        IF seasonal > 1000 THEN (trended * seasonal) \div 1000 ELSE trended
      Trended(category) ==
        IF ~category.ok THEN base_score
        ELSE IF category.v \in DOMAIN ag.intel.categories
                  /\ ag.intel.categories[category.v].form = "null"
             THEN base_score
        ELSE Multiplied(
               (base_score * get_category_multiplier(ag.intel, category.v)) \div 1000,
               get_active_seasonal_multiplier(ag.intel))
  IN Trended(detect_craft_category(desc, story))

\* _analyze_market_demand when the final score is not capped.
AnalyzeMarketDemandUncapped(desc, story, ag, month) ==
  LET Scored(base_score) ==
        Returned(IF ag.market_intel
                 THEN TrendAdjusted(base_score, desc, story, ag)
                 ELSE (base_score * ManualSeasonal(month)) \div 1000)
      InRegion(region) ==
        IF ~region.ok THEN region ELSE Scored(RegionalBase(region.v, 1))
  IN InRegion(RegionLower(story))

\* _analyze_market_demand(product_description, storyteller_output) of agent
\* ag in calendar month `month`.
analyze_market_demand(desc, story, ag, month) ==
  LET Scored(base_score) ==
        Returned(Min(10000,
          IF ag.market_intel
          THEN TrendAdjusted(base_score, desc, story, ag)
          ELSE (base_score * ManualSeasonal(month)) \div 1000))
      InRegion(region) ==
        IF ~region.ok THEN region ELSE Scored(RegionalBase(region.v, 1))
  IN InRegion(RegionLower(story))

\* One line of the justification: which of the two thresholds a score meets.
Significance(score) ==
  IF score >= 7000 THEN "high" ELSE IF score >= 4000 THEN "moderate" ELSE "none"

\* _generate_justification: the parts of the text.
generate_justification(heritage, complexity, market, story) ==
  LET elements == Get(story.cultural_elements, EmptyList)
      title == Get(story.story_title, EmptyStr)
  IN IF Truthy(elements) /\ (~HasLen(elements) \/ ~Joinable(PySlice(elements, 2)))
       THEN Raised("TypeError")
     ELSE Returned(
       [ heritage |-> Significance(heritage),
         complexity |-> Significance(complexity),
         market |-> Significance(market),
         elements |-> IF Truthy(elements) THEN PySlice(elements, 2) ELSE EmptyList,
         title |-> IF Truthy(title) THEN title ELSE EmptyStr ])

\* One validation result.
Validation(category, validated, original, adjusted, reason, message) ==
  [ category |-> category, validated |-> validated, original_price |-> original,
    adjusted_price |-> adjusted, adjustment_reason |-> reason, message |-> message ]

\* The comparison of a price with a band when the ceiling has no tolerance.
MarketAdjustTight(suggested_price, min_market, max_market) ==
  IF suggested_price < min_market
  THEN [ adjusted |-> (min_market * 11) \div 10, reason |-> "below_market_minimum",
         message |-> "Price adjusted to match market floor" ]
  ELSE IF suggested_price > max_market
  THEN [ adjusted |-> max_market, reason |-> "above_market_maximum",
         message |-> "Price adjusted to match market ceiling" ]
  ELSE [ adjusted |-> suggested_price, reason |-> "within_market_range",
         message |-> "Price validated against market data" ]

\* The comparison of a price with a band (min_market, max_market): below
\* the floor it becomes floor * 1.1, above ceiling * 1.2 it becomes the
\* ceiling, otherwise it stays.
\* The comparison when a price inside the band is given a tenth off.
MarketAdjustDiscounting(suggested_price, min_market, max_market) ==
  IF suggested_price < min_market
  THEN [ adjusted |-> (min_market * 11) \div 10, reason |-> "below_market_minimum",
         message |-> "Price adjusted to match market floor" ]
  ELSE IF suggested_price * 10 > max_market * 12
  THEN [ adjusted |-> max_market, reason |-> "above_market_maximum",
         message |-> "Price adjusted to match market ceiling" ]
  ELSE [ adjusted |-> (suggested_price * 9) \div 10, reason |-> "within_market_range",
         message |-> "Price validated against market data" ]

\* The comparison when a price above the tolerated ceiling is brought down to
\* the tolerated ceiling instead of the band's.
MarketAdjustToTolerance(suggested_price, min_market, max_market) ==
  IF suggested_price < min_market
  THEN [ adjusted |-> (min_market * 11) \div 10, reason |-> "below_market_minimum",
         message |-> "Price adjusted to match market floor" ]
  ELSE IF suggested_price * 10 > max_market * 12
  THEN [ adjusted |-> (max_market * 12) \div 10, reason |-> "above_market_maximum",
         message |-> "Price adjusted to match market ceiling" ]
  ELSE [ adjusted |-> suggested_price, reason |-> "within_market_range",
         message |-> "Price validated against market data" ]

MarketAdjust(suggested_price, min_market, max_market) ==
  IF suggested_price < min_market
  THEN [ adjusted |-> (min_market * 11) \div 10, reason |-> "below_market_minimum",
         message |-> "Price adjusted to match market floor" ]
  ELSE IF suggested_price * 10 > max_market * 12
  THEN [ adjusted |-> max_market, reason |-> "above_market_maximum",
         message |-> "Price adjusted to match market ceiling" ]
  ELSE [ adjusted |-> suggested_price, reason |-> "within_market_range",
         message |-> "Price validated against market data" ]

\* The try block of _validate_with_market_cache: the result it returns, or
\* the exception raised inside it.  market_cache maps a category to its
\* record; a record's form says which keys and types it has.
ValidateTry(suggested_price, desc, story, market_cache) ==
  LET Compared(category, verdict) ==
        Returned(Validation(category, TRUE, suggested_price, verdict.adjusted,
                            verdict.reason, verdict.message))
      Against(category, market_data) ==
        IF market_data.form = "null" THEN Raised("TypeError")
        ELSE IF market_data.form = "no_range" THEN Raised("KeyError")
        ELSE IF market_data.form = "short_range" THEN Raised("ValueError")
        ELSE IF market_data.form = "no_markup" THEN Raised("KeyError")
        ELSE IF market_data.form = "text_range" THEN Raised("TypeError")
        ELSE Compared(category, MarketAdjust(suggested_price, market_data.range.lo,
                                             market_data.range.hi))
      InCategory(category) ==
        IF ~category.ok THEN category
        ELSE IF category.v \notin DOMAIN market_cache
          THEN Returned(Validation(category.v, FALSE, suggested_price, suggested_price,
                                   "no_market_data",
                                   "No market data available for validation"))
        ELSE Against(category.v, market_cache[category.v])
  IN InCategory(detect_craft_category(desc, story))

\* Whether the except clause catches the exception e, when it names
\* KeyError only.
ValidatorCatchesKeyError(e) == e = "KeyError"

\* Whether the except clause of _validate_with_market_cache catches the
\* exception e: it catches every Exception.
ValidatorCatches(e) == TRUE

\* _validate_with_market_cache(suggested_price, product_description,
\* storyteller_output): an exception of the try block becomes the
\* validation_error result.
validate_with_market_cache(suggested_price, desc, story, market_cache) ==
  LET Except(attempt) ==
        IF attempt.ok \/ ~ValidatorCatches(attempt.err) THEN attempt
        ELSE Returned(Validation("Unknown", FALSE, suggested_price, suggested_price,
                                 "validation_error",
                                 "Validation error: " \o attempt.err))
  IN Except(ValidateTry(suggested_price, desc, story, market_cache))

\* floor(markup * combined / 200000) without forming the product: markup in
\* thousandths of a rupee, combined in ten-thousandths of a point.
ScaledShare(markup, combined) ==
  LET a == (markup \div 1000) * combined
      b == (markup % 1000) * combined
  IN (a \div 200) + (((a % 200) * 1000 + b) \div 200000)

\* The base artisan value, in rupees.
base_markup == 250

\* combined_score when the market weight is 0.4.
CombinedScoreHeavy(heritage, complexity, market) ==
  3 * heritage + 4 * complexity + 4 * market

\* combined_score = 0.3 * heritage + 0.4 * complexity + 0.3 * market, in
\* ten-thousandths of a point for scores in thousandths.
CombinedScore(heritage, complexity, market) ==
  3 * heritage + 4 * complexity + 3 * market

\* artisan_markup when the market bonus is taken off instead of added.
ArtisanMarkupLessMarket(heritage, complexity, market) ==
  base_markup * Milli + 25 * complexity + 20 * heritage - 15 * market

\* artisan_markup = base_markup + complexity_bonus + heritage_bonus +
\* market_bonus, in thousandths of a rupee.
ArtisanMarkup(heritage, complexity, market) ==
  base_markup * Milli + 25 * complexity + 20 * heritage + 15 * market

\* price_multiplier = 1.0 + combined_score / 20.0, held exactly in
\* two-hundred-thousandths for a combined score in ten-thousandths.
PriceMultiplier(combined_score) == 200000 + combined_score

\* suggested_price = artisan_markup * price_multiplier before validation, in
\* thousandths of a rupee.
RawPrice(heritage, complexity, market) ==
  ArtisanMarkup(heritage, complexity, market)
    + ScaledShare(ArtisanMarkup(heritage, complexity, market),
                  CombinedScore(heritage, complexity, market))

\* calculate_price up to the validation (steps 1 to 7): the scores, the
\* markup, the raw price, the justification and the validation result, or
\* the exception let out.  `ai` is what the external model answers, `month`
\* the calendar month.
PriceWork(desc, story, material_cost, ai, ag, month) ==
  IF ~HasLen(desc) THEN Raised("TypeError")
  ELSE
  LET Priced(heritage, complexity, market) ==
        LET combined_score == CombinedScore(heritage, complexity, market)
            artisan_markup == ArtisanMarkup(heritage, complexity, market)
            suggested_price == RawPrice(heritage, complexity, market)
            Checked(justification, validation) ==
              IF ~justification.ok THEN justification
              ELSE IF ~validation.ok THEN validation
              ELSE Returned(
                     [ heritage_score |-> heritage,
                       complexity_score |-> complexity,
                       market_score |-> market,
                       combined_score |-> combined_score,
                       artisan_markup |-> artisan_markup,
                       suggested_price |-> suggested_price,
                       justification |-> justification.v,
                       validation |-> validation.v ])
        IN Checked(generate_justification(heritage, complexity, market, story),
                   validate_with_market_cache(suggested_price, desc, story,
                                              ag.market_cache))
      Scored(heritage, complexity, market) ==
        IF ~heritage.ok THEN heritage
        ELSE IF ~complexity.ok THEN complexity
        ELSE IF ~market.ok THEN market
        ELSE Priced(heritage.v, complexity.v, market.v)
  IN Scored(analyze_heritage_value(story),
            analyze_complexity(desc, story, ai),
            analyze_market_demand(desc, story, ag, month))

\* The price emitted when the validation is ignored.
FinalPriceRaw(validation) == validation.original_price

\* final_price = validation_result['adjusted_price']
FinalPrice(validation) == validation.adjusted_price

\* calculate_price when the material cost is added to the validated price.
CalculatePricePlusCost(desc, story, material_cost, ai, ag, month) ==
  LET Emitted(work) ==
     IF ~work.ok THEN work
     ELSE
       LET w == work.v
           final_price == FinalPrice(w.validation) + material_cost
           success_probability ==
             Min(95000, Max(50000, 50000 + (w.combined_score * 45) \div 100))
       IN Returned(
            [ suggested_price |-> Round2(final_price),
              price_range |-> [min |-> Round2((final_price * 9) \div 10),
                               max |-> Round2((final_price * 11) \div 10)],
              justification |-> w.justification,
              success_probability |-> Round2(success_probability),
              market_validation |->
                [ category |-> w.validation.category,
                  original_ai_price |-> Round2(w.validation.original_price),
                  adjusted_price |-> Round2(w.validation.adjusted_price),
                  adjustment_reason |-> w.validation.adjustment_reason,
                  validation_message |-> w.validation.message ],
              breakdown |->
                [ heritage_score |-> Round2(w.heritage_score),
                  complexity_score |-> Round2(w.complexity_score),
                  market_score |-> Round2(w.market_score),
                  combined_score |-> Round2(w.combined_score \div 10),
                  base_price |-> Round2(base_markup * Milli),
                  price_multiplier |-> Round2(PriceMultiplier(w.combined_score) \div 200) ] ])
  IN Emitted(PriceWork(desc, story, material_cost, ai, ag, month))

\* calculate_price(product_description, storyteller_output, material_cost):
\* the result dictionary (combined_score is held in ten-thousandths), or
\* the exception let out.
calculate_price(desc, story, material_cost, ai, ag, month) ==
  LET Emitted(work) ==
     IF ~work.ok THEN work
     ELSE
       LET w == work.v
           final_price == FinalPrice(w.validation)
           success_probability ==
             Min(95000, Max(50000, 50000 + (w.combined_score * 45) \div 100))
       IN Returned(
            [ suggested_price |-> Round2(final_price),
              price_range |-> [min |-> Round2((final_price * 9) \div 10),
                               max |-> Round2((final_price * 11) \div 10)],
              justification |-> w.justification,
              success_probability |-> Round2(success_probability),
              market_validation |->
                [ category |-> w.validation.category,
                  original_ai_price |-> Round2(w.validation.original_price),
                  adjusted_price |-> Round2(w.validation.adjusted_price),
                  adjustment_reason |-> w.validation.adjustment_reason,
                  validation_message |-> w.validation.message ],
              breakdown |->
                [ heritage_score |-> Round2(w.heritage_score),
                  complexity_score |-> Round2(w.complexity_score),
                  market_score |-> Round2(w.market_score),
                  combined_score |-> Round2(w.combined_score \div 10),
                  base_price |-> Round2(base_markup * Milli),
                  price_multiplier |-> Round2(PriceMultiplier(w.combined_score) \div 200) ] ])
  IN Emitted(PriceWork(desc, story, material_cost, ai, ag, month))

\* ------------------------------------------------------------- state
VARIABLES
  file,   \* the persistent store, market_cache.json
  now,    \* the clock read by datetime.now()
  mi,     \* mi[p]: the MarketIntelligence instance process p constructed
  run,    \* run[p]: where p is in update_market_cache, with its bookkeeping
  env,    \* the scenario:
          \*   procs     the processes that refresh
          \*   cycles    the refresh cycles each may run
          \*   movers    the categories whose interest series varies (vary);
          \*             the others get a steady series
          \*   headroom  rupees above the seed ceiling up to which the provider
          \*             still reports a rising trend
          \*   faulty    the categories whose request may raise or come back empty
          \*   faults    the phases ("regions", "seasonal", "trending", "store")
          \*             in which a request or an I/O operation may fail
          \*   trendreq  the results TrendReq() may have at construction
          \*   net       whether the provider may be reachable / unreachable
          \*             for a whole cycle
          \*   twin      whether the twin cycle is tracked
          \*   rebuild   whether an agent is constructed again once one is
  agent,  \* the pricing agent's instance
  req,    \* the pricing request being served
  res     \* what the request returned

vars == <<file, now, mi, run, env, agent, req, res>>

\* The processes that run a refresh: the scheduled script
\* (update_market_trends.py) and the API process serving
\* POST /api/update-market-trends.
Procs == {"script", "endpoint"}

\* A process with no instance.
NoInstance == [pytrends |-> FALSE, cache |-> DefaultCache(NoTime)]

\* run[p] of a process that is not refreshing, after n completed cycles.
\*   pc      where the process is
\*   i       the loop index (category, region or trending batch)
\*   ret     what update_market_cache returned
\*   net     whether the provider is reachable during this cycle
\*   acc     the `trending` list get_trending_crafts is building
\*   start   the cache as constructed, before update_market_cache
\*   calls   provider requests issued so far in this cycle
\*   got     whether some request of this cycle returned data
\*   failed  the categories whose request raised in this cycle
\*   twin    the cache of the same cycle had every failed category request
\*           returned a series instead
\*   last    the last provider-facing event: "request" or "sleep"
\*   b2b     whether two requests were issued with no sleep between them
\*   rose    the rising adjustments the process has applied in all its cycles
\*   fell    the falling adjustments the process has applied in all its cycles
IdleRun(n) ==
  [ pc |-> "idle", i |-> 0, ret |-> "none", cycles |-> n, net |-> TRUE,
    acc |-> <<>>, start |-> DefaultCache(NoTime), calls |-> 0, got |-> FALSE,
    failed |-> {}, twin |-> DefaultCache(NoTime), last |-> "none", b2b |-> FALSE,
    rose |-> 0, fell |-> 0 ]

\* The counts of adjustments after category c's record got trend data td.
Tallied(r, cache, c, td) ==
  IF c \notin DOMAIN cache.categories THEN r
  ELSE [r EXCEPT !.rose = IF td.trend_direction = "rising" THEN @ + 1 ELSE @,
                 !.fell = IF td.trend_direction = "falling" THEN @ + 1 ELSE @]

\* The bookkeeping of one provider request answered with `data` (or not).
Requested(r, data) ==
  [r EXCEPT !.calls = @ + 1, !.got = @ \/ data, !.last = "request",
            !.b2b = @ \/ r.last = "request"]

\* time.sleep(n)
Slept(r) == [r EXCEPT !.last = "sleep"]

\* ------------------------------------------------------------- the provider
SeriesOutcomes == {SeriesRising, SeriesSteady, SeriesFalling}

\* The answers the provider can give for a category in process p's cycle.
CraftOutcomes(p, c) ==
  IF ~run[p].net THEN {ProviderError}
  ELSE (IF c \notin env.movers THEN {SeriesSteady}
        ELSE {o \in env.vary :
                fetch_craft_trends(TRUE, o).trend_direction = "rising"
                  => /\ c \in DOMAIN mi[p].cache.categories
                     /\ mi[p].cache.categories[c].range.hi
                          <= SeedCeiling(c) + env.headroom * Milli})
       \cup (IF c \in env.faulty THEN {ProviderError, ProviderEmpty} ELSE {})

\* The answer the twin cycle gets where this cycle got o.
TwinOutcomes(p, o) ==
  IF env.twin /\ run[p].net /\ o = ProviderError THEN SeriesOutcomes ELSE {o}

\* The answers the provider can give for a region.
RegionOutcomes(p) ==
  IF ~run[p].net THEN {ProviderError}
  ELSE {Series(40 * Centi, 4050)}
         \cup (IF "regions" \in env.faults THEN {ProviderError, ProviderEmpty} ELSE {})

\* The last-week means of the seasonal keywords, when the provider answers.
SeasonalMeans ==
  [ kw \in {seasonal_keywords[k] : k \in 1..Len(seasonal_keywords)} |->
      IF kw = "diwali gifts" THEN 7550
      ELSE IF kw = "wedding gifts india" THEN 4000
      ELSE 1000 ]

SeasonalOutcomes(p) ==
  IF ~run[p].net THEN {MeansError}
  ELSE {MeansData(SeasonalMeans)}
         \cup (IF "seasonal" \in env.faults THEN {MeansError, MeansEmpty} ELSE {})

\* The last-week means of the trending comparison, when the provider answers.
TrendingMeans ==
  [ pottery |-> 7500, embroidery |-> 2000, jewelry |-> 6500, textile |-> 6100,
    woodwork |-> 1000, metalwork |-> 5000, painting |-> 6250, leather |-> 500 ]

TrendingOutcomes(p) ==
  IF ~run[p].net THEN {MeansError}
  ELSE {MeansData(TrendingMeans)}
         \cup (IF "trending" \in env.faults THEN {MeansError, MeansEmpty} ELSE {})

\* The results an I/O operation on the store can have.
IoOutcomes == IF "store" \in env.faults THEN {"ok", "fail"} ELSE {"ok"}

\* ------------------------------------------------------------- a refresh process
\* MarketIntelligence(): TrendReq() succeeds or fails, then the cache is
\* loaded from the store.  The clock has advanced since the last reading.
Construct(p) ==
  /\ p \in env.procs
  /\ run[p].pc = "idle"
  /\ run[p].cycles < env.cycles
  /\ now' = now + 1
  /\ \E ok \in env.trendreq :
       LET c == LoadCache(file, now')
       IN /\ mi' = [mi EXCEPT ![p] = [pytrends |-> ok, cache |-> c]]
          /\ run' = [run EXCEPT ![p] =
                       [IdleRun(run[p].cycles) EXCEPT
                          !.pc = "constructed", !.start = c, !.twin = c,
                          !.rose = run[p].rose, !.fell = run[p].fell]]
  /\ UNCHANGED <<file, env, agent, req, res>>

\* update_market_cache() up to the first request, when the aggregate's
\* timestamp is set on entry.
BeginUpdateStamping(p) ==
  /\ run[p].pc = "constructed"
  /\ IF ~mi[p].pytrends
     THEN /\ run' = [run EXCEPT ![p].pc = "returned", ![p].ret = "false"]
          /\ mi' = mi
     ELSE /\ \E up \in env.net :
               run' = [run EXCEPT ![p].pc = "categories", ![p].i = 1, ![p].net = up]
          /\ mi' = [mi EXCEPT ![p].cache.last_updated = now]
  /\ UNCHANGED <<file, now, env, agent, req, res>>

\* update_market_cache(), up to the first request: False at once when there
\* is no provider client.
BeginUpdate(p) ==
  /\ run[p].pc = "constructed"
  /\ IF ~mi[p].pytrends
     THEN run' = [run EXCEPT ![p].pc = "returned", ![p].ret = "false"]
     ELSE \E up \in env.net :
            run' = [run EXCEPT ![p].pc = "categories", ![p].i = 1, ![p].net = up]
  /\ UNCHANGED <<file, now, mi, env, agent, req, res>>

\* One pass of the category loop: the request, the update of the record,
\* time.sleep(2).
FetchCategory(p) ==
  /\ run[p].pc = "categories"
  /\ LET c == Categories[run[p].i]
         last == run[p].i = Len(Categories)
     IN \E o \in CraftOutcomes(p, c) : \E o2 \in TwinOutcomes(p, o) :
          /\ mi' = [mi EXCEPT ![p].cache =
                      UpdateCategory(@, c, fetch_craft_trends(TRUE, o), now)]
          /\ run' = [run EXCEPT ![p] =
                       [Tallied(Slept(Requested(@, o.kind = "series")), mi[p].cache,
                                c, fetch_craft_trends(TRUE, o)) EXCEPT
                          !.failed = IF o.kind = "error" THEN @ \cup {c} ELSE @,
                          !.twin = UpdateCategory(@, c, fetch_craft_trends(TRUE, o2), now),
                          !.pc = IF last THEN "regions" ELSE "categories",
                          !.i = IF last THEN 1 ELSE @ + 1]]
  /\ UNCHANGED <<file, now, env, agent, req, res>>

\* One pass of the region loop: the request, the assignment, time.sleep(2).
FetchRegion(p) ==
  /\ run[p].pc = "regions"
  /\ LET region == RefreshRegions[run[p].i]
         last == run[p].i = Len(RefreshRegions)
     IN \E o \in RegionOutcomes(p) :
          /\ mi' = [mi EXCEPT ![p].cache.regional_trends =
                      (region :> [regional_score |-> fetch_regional_trends(TRUE, o)]) @@ @]
          /\ run' = [run EXCEPT ![p] =
                       [Slept(Requested(@, o.kind = "series")) EXCEPT
                          !.pc = IF last THEN "seasonal" ELSE "regions",
                          !.i = IF last THEN 1 ELSE @ + 1]]
  /\ UNCHANGED <<file, now, env, agent, req, res>>

\* fetch_seasonal_trends() and the assignment of its result.
FetchSeasonal(p) ==
  /\ run[p].pc = "seasonal"
  /\ \E o \in SeasonalOutcomes(p) :
       /\ mi' = [mi EXCEPT ![p].cache.seasonal_trends = fetch_seasonal_trends(TRUE, o)]
       /\ run' = [run EXCEPT ![p] =
                    [Requested(@, o.kind = "data") EXCEPT
                       !.pc = "trending", !.i = 1, !.acc = <<>>]]
  /\ UNCHANGED <<file, now, env, agent, req, res>>

\* One batch of get_trending_crafts: the request, the entries, time.sleep(1);
\* an error ends the function with []. After the last batch the sorted top
\* five are assigned to the cache.
FetchTrending(p) ==
  /\ run[p].pc = "trending"
  /\ LET last == run[p].i = TrendingBatches
     IN \E o \in TrendingOutcomes(p) :
          IF o.kind = "error"
          THEN /\ mi' = [mi EXCEPT ![p].cache.trending_crafts = <<>>]
               /\ run' = [run EXCEPT ![p] =
                            [Requested(@, FALSE) EXCEPT !.pc = "save_open", !.acc = <<>>]]
          ELSE LET acc == run[p].acc \o BatchEntries(run[p].i, o)
               IN /\ mi' = IF last
                           THEN [mi EXCEPT ![p].cache.trending_crafts = TopTrending(acc)]
                           ELSE mi
                  /\ run' = [run EXCEPT ![p] =
                               [Slept(Requested(@, o.kind = "data")) EXCEPT
                                  !.acc = IF last THEN <<>> ELSE acc,
                                  !.pc = IF last THEN "save_open" ELSE "trending",
                                  !.i = IF last THEN 0 ELSE @ + 1]]
  /\ UNCHANGED <<file, now, env, agent, req, res>>

\* What update_market_cache returns after _save_cache, whose I/O had the
\* result io, when the save is strict about errors.
SaveResultStrict(io) == IF io = "ok" THEN "true" ELSE "false"

\* What update_market_cache returns after _save_cache, whose I/O had the
\* result io: _save_cache logs an error and returns, the update goes on to
\* `return True`.
SaveResult(io) == "true"

\* cache['last_updated'] = now, then _save_cache() opens the file for
\* writing, which empties it.  An error opening is logged and the update
\* goes on to return True.
SaveOpen(p) ==
  /\ run[p].pc = "save_open"
  /\ mi' = [mi EXCEPT ![p].cache.last_updated = now]
  /\ \E io \in IoOutcomes :
       IF io = "ok"
       THEN /\ file' = FileTruncated
            /\ run' = [run EXCEPT ![p].pc = "save_write"]
       ELSE /\ file' = file
            /\ run' = [run EXCEPT ![p].pc = "returned", ![p].ret = SaveResult(io)]
  /\ UNCHANGED <<now, env, agent, req, res>>

\* json.dump and close: the document is written from the start of the file.
\* If another process wrote the file since this one opened it, what is left
\* can be this document or a mixture that does not parse.  An error writing
\* is logged.  update_market_cache then returns True.
SaveWrite(p) ==
  /\ run[p].pc = "save_write"
  /\ \E io \in IoOutcomes :
       \E f \in IF io = "fail" THEN {file}
                ELSE IF file.kind = "json"
                     THEN {FileJson(Serialize(mi[p].cache)), FileTruncated}
                     ELSE {FileJson(Serialize(mi[p].cache))} :
         /\ file' = f
         /\ run' = [run EXCEPT ![p].pc = "returned", ![p].ret = SaveResult(io)]
  /\ UNCHANGED <<now, mi, env, agent, req, res>>

\* The caller reports the result and the process is done with its instance.
Finish(p) ==
  /\ run[p].pc = "returned"
  /\ run' = [run EXCEPT ![p] = [IdleRun(run[p].cycles + 1) EXCEPT
                                   !.rose = run[p].rose, !.fell = run[p].fell]]
  /\ mi' = [mi EXCEPT ![p] = NoInstance]
  /\ UNCHANGED <<file, now, env, agent, req, res>>

\* A step of refresh process p.
Refresh(p) ==
  \/ Construct(p)
  \/ BeginUpdate(p)
  \/ FetchCategory(p)
  \/ FetchRegion(p)
  \/ FetchSeasonal(p)
  \/ FetchTrending(p)
  \/ SaveOpen(p)
  \/ SaveWrite(p)
  \/ Finish(p)

\* ------------------------------------------------------------- scenarios
\* Refresh cycles the script runs in the drift scenario.
MaxCycles == 22
\* The provider reports a rising trend only while the stored ceiling is at
\* most this many rupees above the seed ceiling.
MaxHeadroom == 100
\* The categories whose interest varies in the drift scenario: the default
\* category and the one with the narrowest seed range.
DriftMovers == {"pottery", "metalwork"}

NoAgent == [built |-> FALSE]
NoRequest == [kind |-> "none"]
NoResult == [kind |-> "none"]

\* Drift: the script runs cycle after cycle; one keyword's interest varies.
InitDrift ==
  /\ file = FileAbsent
  /\ now = 0
  /\ mi = [p \in Procs |-> NoInstance]
  /\ run = [p \in Procs |-> IdleRun(0)]
  /\ \E m \in DriftMovers :
       env = [ procs |-> {"script"}, movers |-> {m}, cycles |-> MaxCycles,
               headroom |-> MaxHeadroom, trendreq |-> {TRUE}, net |-> {TRUE},
               vary |-> SeriesOutcomes, faulty |-> {}, faults |-> {},
               twin |-> FALSE, rebuild |-> FALSE ]
  /\ agent = NoAgent
  /\ req = NoRequest
  /\ res = NoResult

NextDrift == \E p \in Procs : Refresh(p)

SpecDrift == InitDrift /\ [][NextDrift]_vars

\* ------------------------------------------------------------- one cycle
\* UpdateCategory for the categories k.. of the list, all with trend data td.
RECURSIVE UpdateFrom(_, _, _, _)
UpdateFrom(cache, k, td, t) ==
  IF k > Len(Categories) THEN cache
  ELSE UpdateFrom(UpdateCategory(cache, Categories[k], td, t), k + 1, td, t)

\* The aggregate a cycle at time t leaves when every category request
\* returned the series o and every other request returned data.
RefreshedCache(o, t) ==
  [ UpdateFrom(DefaultCache(t), 1, fetch_craft_trends(TRUE, o), t) EXCEPT
      !.regional_trends =
         [r \in {RefreshRegions[k] : k \in 1..Len(RefreshRegions)} |->
            [regional_score |-> fetch_regional_trends(TRUE, Series(40 * Centi, 4050))]],
      !.seasonal_trends = fetch_seasonal_trends(TRUE, MeansData(SeasonalMeans)),
      !.trending_crafts =
         TopTrending(BatchEntries(1, MeansData(TrendingMeans))
                       \o BatchEntries(2, MeansData(TrendingMeans))),
      !.last_updated = t ]

\* What the store can hold when a cycle starts: nothing, a file that does
\* not parse, or the aggregate an earlier cycle wrote.
StartFiles ==
  {FileAbsent, FileTruncated} \cup
  {FileJson(Serialize(RefreshedCache(o, 0))) : o \in {SeriesRising, SeriesFalling}}

\* One cycle of the script: one category's series varies, one category's
\* request can fail, the requests of one phase can fail, the provider can
\* be unreachable from the start or for the whole cycle.
InitCycle ==
  /\ file \in StartFiles
  /\ now = 0
  /\ mi = [p \in Procs |-> NoInstance]
  /\ run = [p \in Procs |-> IdleRun(0)]
  /\ \E m \in CategorySet, f \in CategorySet,
        ph \in {{}, {"regions"}, {"seasonal"}, {"trending"}, {"store"}} :
       env = [ procs |-> {"script"}, movers |-> {m}, cycles |-> 1,
               headroom |-> MaxHeadroom, trendreq |-> BOOLEAN, net |-> BOOLEAN,
               vary |-> SeriesOutcomes \cup {SeriesZero}, faulty |-> {f},
               faults |-> ph, twin |-> TRUE, rebuild |-> FALSE ]
  /\ agent = NoAgent
  /\ req = NoRequest
  /\ res = NoResult

NextCycle == \E p \in Procs : Refresh(p)

SpecCycle == InitCycle /\ [][NextCycle]_vars

\* ------------------------------------------------------------- refresh properties
\* The process has left the category loop of its cycle.
PastCategories(p) ==
  run[p].pc \in {"regions", "seasonal", "trending", "save_open", "save_write", "returned"}

\* The provider requests of a cycle that runs through every phase: one per
\* category, one per refreshed region, the seasonal one, a trending batch.
FullCycleCalls == Len(Categories) + Len(RefreshRegions) + 2

\* C7: in a cycle where the provider fails for exactly one category and
\* answers for every other, the cycle runs through every phase and returns
\* true, and every other category's record (trend score, direction, band,
\* timestamp) equals its record in the same cycle had that request succeeded.
C7_RefreshIsolation ==
  \A p \in Procs :
    (PastCategories(p) /\ run[p].net /\ Cardinality(run[p].failed) = 1) =>
      /\ run[p].ret # "false"
      /\ \A d \in CategorySet \ run[p].failed :
           mi[p].cache.categories[d] = run[p].twin.categories[d]
      /\ run[p].pc = "returned" =>
           (run[p].ret = "true" /\ run[p].calls >= FullCycleCalls)

\* A finished cycle in which the embroidery request failed, pottery rose,
\* and the twin's embroidery request returned a falling series.
C7_Witness ==
  /\ run["script"].pc = "returned"
  /\ run["script"].failed = {"embroidery"}
  /\ mi["script"].cache.categories["pottery"].trend_direction = "rising"
  /\ mi["script"].cache.categories["embroidery"].trend_direction = "stable"
  /\ run["script"].twin.categories["embroidery"].trend_direction = "falling"

Unreachable(p) == ~mi[p].pytrends \/ ~run[p].net

\* C9: a cycle throughout which the provider was unreachable returns False
\* and leaves the cache as it was before the call.
C9_TotalFailureKeepsCache ==
  \A p \in Procs :
    (run[p].pc = "returned" /\ Unreachable(p)) =>
      /\ run[p].ret = "false"
      /\ mi[p].cache = run[p].start

\* C10: in every cache, in memory or persisted, every category's floor is at
\* most its ceiling.
C10_BandOrdered ==
  /\ \A p \in Procs : \A c \in DOMAIN mi[p].cache.categories :
       mi[p].cache.categories[c].range.lo <= mi[p].cache.categories[c].range.hi
  /\ file.kind = "json" =>
       \A c \in DOMAIN file.doc.categories :
         file.doc.categories[c].range.lo <= file.doc.categories[c].range.hi

\* ------------------------------------------------------------- the agent's instance
\* 'avg_markup' and 'demand' of the table _init_market_cache builds.
FallbackMarkup ==
  [ pottery |-> 200, embroidery |-> 350, jewelry |-> 500, textile |-> 300,
    woodwork |-> 250, metalwork |-> 400, painting |-> 450, leather |-> 280 ]
FallbackDemand ==
  [ pottery |-> "high", embroidery |-> "high", jewelry |-> "very_high",
    textile |-> "high", woodwork |-> "medium", metalwork |-> "high",
    painting |-> "high", leather |-> "medium" ]

\* _init_market_cache() at time t.
init_market_cache(t) ==
  [ c \in CategorySet |->
      [ form |-> "ok",
        range |-> [lo |-> SeedRange[c][1] * Milli, hi |-> SeedRange[c][2] * Milli,
                   py |-> "tuple"],
        avg_markup |-> FallbackMarkup[c] * Milli,
        demand |-> FallbackDemand[c],
        last_updated |-> t ] ]

\* DynamicPricingAgent() at time t with store f: the MarketIntelligence
\* instance loads the cache; without a 'categories' key the agent falls
\* back to its own table and has no market intelligence.
PricingAgent(f, t) ==
  LET Loaded(cache_data) ==
        IF "categories" \in DOMAIN cache_data.cache
        THEN [ built |-> TRUE, market_intel |-> TRUE, intel |-> cache_data.cache,
               market_cache |-> cache_data.cache.categories,
               stale |-> cache_data.stale, refreshed |-> cache_data.refreshed ]
        ELSE [ built |-> TRUE, market_intel |-> FALSE, intel |-> cache_data.cache,
               market_cache |-> init_market_cache(t),
               stale |-> cache_data.stale, refreshed |-> cache_data.refreshed ]
  IN Loaded(get_market_cache(LoadCache(f, t), t))

\* What a reader can tell of an aggregate: each category's trend and band,
\* the regional, seasonal and trending data, the aggregate's timestamp.
View(cache) ==
  [ categories |-> [c \in DOMAIN cache.categories |->
                      [ trend_score |-> cache.categories[c].trend_score,
                        trend_direction |-> cache.categories[c].trend_direction,
                        lo |-> cache.categories[c].range.lo,
                        hi |-> cache.categories[c].range.hi ]],
    regional_trends |-> cache.regional_trends,
    seasonal_trends |-> cache.seasonal_trends,
    trending_crafts |-> cache.trending_crafts,
    last_updated |-> cache.last_updated ]

\* The aggregate `cache` is the one the script's cycle started from or,
\* once the cycle has written it, the one the cycle holds.
SeesWhole(cache) ==
  \/ View(cache) = View(run["script"].start)
  \/ /\ run["script"].pc \in {"save_write", "returned"}
     /\ View(cache) = View(mi["script"].cache)

\* The agent is constructed for a request (main2.0.py builds one per
\* request).  during and whole record whether the script's cycle was under
\* way at that moment and whether the aggregate loaded was a whole one.
AgentInit ==
  /\ req.kind = "none"
  /\ agent.built => env.rebuild
  /\ agent' = LET Built(a) ==
                    [ built |-> TRUE, market_intel |-> a.market_intel,
                      intel |-> a.intel, market_cache |-> a.market_cache,
                      stale |-> a.stale, refreshed |-> a.refreshed,
                      during |-> run["script"].pc # "idle",
                      whole |-> a.market_intel => SeesWhole(a.intel) ]
              IN Built(PricingAgent(file, now))
  /\ UNCHANGED <<file, now, mi, run, env, req, res>>

\* ------------------------------------------------------------- refresh and readers
\* Refresh cycles each process runs in the concurrent scenario.
MaxConcCycles == 1

\* The script alone or the script and the endpoint refresh, pottery's
\* interest rises or falls, and agents are constructed at any moment.
InitConc ==
  /\ file \in {FileAbsent, FileJson(Serialize(RefreshedCache(SeriesRising, 0)))}
  /\ now = 0
  /\ mi = [p \in Procs |-> NoInstance]
  /\ run = [p \in Procs |-> IdleRun(0)]
  /\ \E ps \in {{"script"}, Procs} :
       env = [ procs |-> ps, movers |-> {"pottery"}, cycles |-> MaxConcCycles,
               headroom |-> MaxHeadroom, trendreq |-> {TRUE}, net |-> {TRUE},
               vary |-> {SeriesRising, SeriesFalling}, faulty |-> {}, faults |-> {},
               twin |-> FALSE, rebuild |-> FALSE ]
  /\ agent = NoAgent
  /\ req = NoRequest
  /\ res = NoResult

NextConc ==
  \/ \E p \in Procs : Refresh(p)
  \/ AgentInit

SpecConc == InitConc /\ [][NextConc]_vars

\* C5: with the script's cycle the only one, an agent constructed while
\* the cycle is under way sees the aggregate the cycle started from or,
\* once the cycle has written it, the aggregate the cycle holds.
C5_ReadersSeeWholeAggregate ==
  (agent.built /\ env.procs = {"script"} /\ agent.during) => agent.whole

\* The process is between its first request and the end of its save.
InFlight(p) == run[p].calls > 0 /\ run[p].pc \notin {"idle", "returned"}

\* C6: the script and the endpoint are never both between their first
\* request and the end of their save.
C6_OneCycleAtATime == ~(InFlight("script") /\ InFlight("endpoint"))

\* ------------------------------------------------------------- pricing requests
\* Hand-painted clay pot
DescPot == PyStr(<<"H","a","n","d","-","p","a","i","n","t","e","d"," ","c","l","a","y"," ","p","o","t">>)

\* Blue pot with peacock and lotus flowers, traditional Jaipur techniques
DescBluePot == PyStr(<<"B","l","u","e"," ","p","o","t"," ","w","i","t","h"," ","p","e","a","c","o","c","k"," ","a","n","d"," ","l","o","t","u","s"," ","f","l","o","w","e","r","s",","," ","t","r","a","d","i","t","i","o","n","a","l"," ","J","a","i","p","u","r"," ","t","e","c","h","n","i","q","u","e","s">>)

\* The descriptions of the requests: one per detected category reached, one
\* that matches no category, the one of test_pricing_agent.py, and None.
Descriptions ==
  { DescPot,
    \* Brass lamp
    PyStr(<<"B","r","a","s","s"," ","l","a","m","p">>),
    \* Silk saree
    PyStr(<<"S","i","l","k"," ","s","a","r","e","e">>),
    \* Embroidered leather bag
    PyStr(<<"E","m","b","r","o","i","d","e","r","e","d"," ","l","e","a","t","h","e","r"," ","b","a","g">>),
    \* Silver necklace
    PyStr(<<"S","i","l","v","e","r"," ","n","e","c","k","l","a","c","e">>),
    \* Gift
    PyStr(<<"G","i","f","t">>),
    DescBluePot,
    PyNone }

\* storyteller_output
Story(elements, prompts, title, overview) ==
  [ cultural_elements |-> elements, image_prompts |-> prompts,
    story_title |-> title, overview |-> overview ]

ElementValues ==
  { PyAbsent, PyNone, PyNum, PyStr(<<"l","o","t","u","s">>),
    PyList(<<PyStr(<<"D","i","w","a","l","i">>), PyStr(<<"l","o","t","u","s">>)>>),
    PyList(<<PyStr(<<"D","i","w","a","l","i">>), PyNone>>),
    PyList(<<PyStr(<<"D","i","w","a","l","i">>), PyStr(<<"l","o","t","u","s">>), PyStr(<<"p","e","a","c","o","c","k">>), PyStr(<<"K","u","t","c","h">>)>>) }

PromptValues ==
  { PyAbsent, PyNone, PyNum, PyStr(<<"t","e","m","p","l","e">>),
    PyList(<<PyStr(<<"T","e","m","p","l","e"," ","f","e","s","t","i","v","a","l">>), PyStr(<<"T","r","a","d","i","t","i","o","n","a","l"," ","w","a","r","l","i"," ","a","r","t",","," ","t","a","k","e","s"," ","w","e","e","k","s">>)>>) }

TitleValues == { PyAbsent, PyNone, PyNum, PyStr(<<"K","u","t","c","h"," ","P","o","t","t","e","r","y">>) }

OverviewValues ==
  { OverviewAbsent, Overview("none", PyAbsent), Overview("num", PyAbsent),
    Overview("dict", PyAbsent), Overview("dict", PyNone), Overview("dict", PyNum),
    Overview("dict", PyStr(<<"K","u","t","c","h",","," ","G","u","j","a","r","a","t">>)),
    Overview("dict", PyStr(<<"K","e","r","a","l","a">>)) }

\* A story with every key, well formed.
StoryFull ==
  Story(PyList(<<PyStr(<<"D","i","w","a","l","i">>), PyStr(<<"l","o","t","u","s">>)>>),
        PyList(<<PyStr(<<"T","e","m","p","l","e"," ","f","e","s","t","i","v","a","l">>), PyStr(<<"T","r","a","d","i","t","i","o","n","a","l"," ","w","a","r","l","i"," ","a","r","t",","," ","t","a","k","e","s"," ","w","e","e","k","s">>)>>),
        PyStr(<<"K","u","t","c","h"," ","P","o","t","t","e","r","y">>),
        Overview("dict", PyStr(<<"K","u","t","c","h",","," ","G","u","j","a","r","a","t">>)))

\* A story with no key.
StoryEmpty == Story(PyAbsent, PyAbsent, PyAbsent, OverviewAbsent)

\* A story that has the region Rajasthan and nothing else.
StoryRajasthan ==
  Story(PyAbsent, PyAbsent, PyAbsent,
        Overview("dict", PyStr(<<"R","a","j","a","s","t","h","a","n">>)))

\* The story above with the words of the description among its prompts.
StoryJaipur ==
  [StoryRajasthan EXCEPT !.image_prompts =
     PyList(<<PyStr(<<"p","e","a","c","o","c","k",","," ","l","o","t","u","s",","," ","J","a","i","p","u","r",","," ","t","r","a","d","i","t","i","o","n","a","l">>)>>)]

\* The stories of the requests: the ones above, and the full one with one
\* key at a time taking each of its values.
Stories ==
  {StoryEmpty, StoryRajasthan, StoryJaipur}
    \cup {[StoryFull EXCEPT !.cultural_elements = v] : v \in ElementValues}
    \cup {[StoryFull EXCEPT !.image_prompts = v] : v \in PromptValues}
    \cup {[StoryFull EXCEPT !.story_title = v] : v \in TitleValues}
    \cup {[StoryFull EXCEPT !.overview = v] : v \in OverviewValues}

\* What the external model answers: an exception, a text with no number,
\* a number within 1..10, a number above it.
Estimates == {EstimateRaises, EstimateText(NoNumber), EstimateText(7500), EstimateText(15000)}

\* Calendar months: one of the manual seasons and one outside them.
Months == {11, 6}

\* material_cost, in thousandths of a rupee.
MaterialCosts == {0, 500 * Milli}

\* The raw prices handed to the validator, in thousandths of a rupee: below
\* every floor, at and next to pottery's floor (100), within it, at and next
\* to its tolerance (400 * 1.2), above every ceiling.
RawPrices == {0, 99999, 100000, 250000, 480000, 480001, 5000000}

\* A stored category record whose keys or types are not as the code writes
\* them.
CorruptForms == {"null", "no_range", "short_range", "no_markup", "text_range"}
CorruptRecord(c, form) == [SeedRecord(c, 0) EXCEPT !.form = form]

\* A stored aggregate with category c's record replaced.
WithRecord(cache, c, rec) == [cache EXCEPT !.categories[c] = rec]

\* A stored aggregate without category c.
WithoutCategory(cache, c) ==
  [cache EXCEPT !.categories = [d \in DOMAIN cache.categories \ {c} |-> cache.categories[d]]]

\* A stored document without the 'categories' key.
NoCategoriesDoc == [last_updated |-> NoTime]

\* The aggregate a cycle at time t leaves when the embroidery request
\* returned a rising series and every other category request a falling one.
MixedCache(t) ==
  [ RefreshedCache(SeriesFalling, t) EXCEPT
      !.categories["embroidery"] = RefreshedCache(SeriesRising, t).categories["embroidery"] ]

\* What the store can hold when a request is served.
PriceFiles ==
  {FileAbsent, FileTruncated, FileJson(Serialize(MixedCache(0)))}
    \cup {FileJson(Serialize(RefreshedCache(o, 0))) : o \in {SeriesRising, SeriesFalling}}
    \cup {FileJson(WithRecord(Serialize(RefreshedCache(SeriesRising, 0)), "pottery",
                              CorruptRecord("pottery", f))) : f \in CorruptForms}
    \cup {FileJson(WithoutCategory(Serialize(RefreshedCache(SeriesRising, 0)), "pottery")),
          FileJson(NoCategoriesDoc)}

\* No process refreshes.
NoRefresh ==
  [ procs |-> {}, movers |-> {}, cycles |-> 0, headroom |-> 0, trendreq |-> {TRUE},
    net |-> {TRUE}, vary |-> {}, faulty |-> {}, faults |-> {}, twin |-> FALSE,
    rebuild |-> TRUE ]

\* A request, being served.
Request(kind, desc, story, material_cost, ai, month, raw) ==
  [ kind |-> kind, desc |-> desc, story |-> story, material_cost |-> material_cost,
    ai |-> ai, month |-> month, raw |-> raw ]

\* A call of calculate_price arrives.
ReceivePrice ==
  /\ agent.built
  /\ req.kind = "none"
  /\ \E d \in Descriptions, st \in Stories, mc \in MaterialCosts,
        ai \in Estimates, month \in Months :
       req' = Request("price", d, st, mc, ai, month, 0)
  /\ UNCHANGED <<file, now, mi, run, env, agent, res>>

\* A call of _validate_with_market_cache arrives.
ReceiveValidate ==
  /\ agent.built
  /\ req.kind = "none"
  /\ \E d \in Descriptions, st \in {StoryFull, StoryEmpty,
                                    [StoryFull EXCEPT !.cultural_elements = PyNone]},
        raw \in RawPrices :
       req' = Request("validate", d, st, 0, EstimateRaises, 6, raw)
  /\ UNCHANGED <<file, now, mi, run, env, agent, res>>

\* calculate_price runs; work is what it had computed up to the validation,
\* scores what each scorer gave on its own.
Calculate ==
  /\ req.kind = "price"
  /\ res.kind = "none"
  /\ res' = [ kind |-> "price",
              out |-> calculate_price(req.desc, req.story, req.material_cost,
                                      req.ai, agent, req.month),
              work |-> PriceWork(req.desc, req.story, req.material_cost,
                                 req.ai, agent, req.month),
              scores |->
                [ heritage |-> analyze_heritage_value(req.story),
                  complexity |-> analyze_complexity(req.desc, req.story, req.ai),
                  market |-> analyze_market_demand(req.desc, req.story, agent,
                                                   req.month) ] ]
  /\ UNCHANGED <<file, now, mi, run, env, agent, req>>

\* The validator called on the adjusted price of its own result, for the
\* same product and cache.
Revalidated(first, desc, story, market_cache) ==
  IF ~first.ok THEN first
  ELSE validate_with_market_cache(first.v.adjusted_price, desc, story, market_cache)

\* _validate_with_market_cache runs, and runs again on the price it returned.
Validate ==
  /\ req.kind = "validate"
  /\ res.kind = "none"
  /\ res' = [ kind |-> "validation",
              out |-> validate_with_market_cache(req.raw, req.desc, req.story,
                                                 agent.market_cache),
              again |-> Revalidated(
                          validate_with_market_cache(req.raw, req.desc, req.story,
                                                     agent.market_cache),
                          req.desc, req.story, agent.market_cache) ]
  /\ UNCHANGED <<file, now, mi, run, env, agent, req>>

\* The caller has the result.
Reply ==
  /\ res.kind # "none"
  /\ req' = NoRequest
  /\ res' = NoResult
  /\ UNCHANGED <<file, now, mi, run, env, agent>>

InitPrice ==
  /\ file \in PriceFiles
  /\ now = 0
  /\ mi = [p \in Procs |-> NoInstance]
  /\ run = [p \in Procs |-> IdleRun(0)]
  /\ env = NoRefresh
  /\ agent = NoAgent
  /\ req = NoRequest
  /\ res = NoResult

NextPrice ==
  \/ AgentInit
  \/ ReceivePrice
  \/ ReceiveValidate
  \/ Calculate
  \/ Validate
  \/ Reply

SpecPrice == InitPrice /\ [][NextPrice]_vars

\* The category detected for the request has a record with a band in the
\* agent's cache.
HasBand ==
  LET category == detect_craft_category(req.desc, req.story)
  IN /\ category.ok
     /\ category.v \in DOMAIN agent.market_cache
     /\ agent.market_cache[category.v].form = "ok"

\* C1: for a raw price and a category with a cached band, the validator
\* returns validated = true and the raw price as original price, with floor
\* * 1.1 and below_market_minimum when raw < floor, else the ceiling and
\* above_market_maximum when raw > ceiling * 1.2, else the raw price and
\* within_market_range.
C1_ValidatorOutcomes ==
  (res.kind = "validation" /\ HasBand) =>
    LET band == agent.market_cache[detect_craft_category(req.desc, req.story).v].range
        v == res.out.v
    IN /\ res.out.ok
       /\ v.validated
       /\ v.original_price = req.raw
       /\ IF req.raw < band.lo
          THEN v.adjusted_price = (band.lo * 11) \div 10
                 /\ v.adjustment_reason = "below_market_minimum"
          ELSE IF req.raw * 10 > band.hi * 12
          THEN v.adjusted_price = band.hi
                 /\ v.adjustment_reason = "above_market_maximum"
          ELSE v.adjusted_price = req.raw
                 /\ v.adjustment_reason = "within_market_range"

\* A raw price between pottery's ceiling and its tolerance was validated
\* and left as it is.
C1_Witness ==
  /\ res.kind = "validation"
  /\ HasBand
  /\ req.desc = DescPot
  /\ agent.market_cache["pottery"].range.hi < req.raw
  /\ res.out.v.adjustment_reason = "within_market_range"

\* C2: the emitted price is the validator's adjusted price, the emitted
\* range is 0.9 and 1.1 times it, and min < price < max.
C2_EmitsValidatedPrice ==
  (res.kind = "price" /\ res.out.ok) =>
    LET adjusted == res.work.v.validation.adjusted_price
        r == res.out.v
    IN /\ r.suggested_price = Round2(adjusted)
       /\ r.price_range.min = Round2((adjusted * 9) \div 10)
       /\ r.price_range.max = Round2((adjusted * 11) \div 10)
       /\ r.price_range.min < r.suggested_price
       /\ r.suggested_price < r.price_range.max

\* A result whose raw price the validator brought down to the ceiling.
C2_Witness ==
  /\ res.kind = "price"
  /\ res.out.ok
  /\ res.work.v.validation.adjustment_reason = "above_market_maximum"
  /\ res.work.v.validation.adjusted_price < res.work.v.suggested_price
  /\ res.out.v.suggested_price = Round2(res.work.v.validation.adjusted_price)

\* C3: calculate_price returns a result for every description that is a
\* string and every story, whatever keys are missing or malformed.
C3_CalculateNeverFails ==
  (res.kind = "price" /\ req.desc.t = "str") => res.out.ok

\* C4: the validator returns for every cache content, and when its body
\* raised it returns the raw price as adjusted and original price,
\* validated = false, validation_error and a non-empty message.
C4_ValidatorNeverRaises ==
  res.kind = "validation" =>
    /\ res.out.ok
    /\ ~ValidateTry(req.raw, req.desc, req.story, agent.market_cache).ok =>
         /\ res.out.v.adjusted_price = req.raw
         /\ res.out.v.original_price = req.raw
         /\ ~res.out.v.validated
         /\ res.out.v.adjustment_reason = "validation_error"
         /\ res.out.v.message # ""

\* The validator met pottery's record without a range and returned
\* validation_error.
C4_Witness ==
  /\ res.kind = "validation"
  /\ req.desc = DescPot
  /\ "pottery" \in DOMAIN agent.market_cache
  /\ agent.market_cache["pottery"].form = "no_range"
  /\ res.out.ok
  /\ res.out.v.adjustment_reason = "validation_error"

\* ------------------------------------------------------------- compounding
\* Refresh cycles the script runs in the compounding scenario.
MaxCompoundCycles == 3
\* Rupees above the seed ceiling up to which the provider reports a rising
\* trend in the compounding scenario: beyond what the cycles can reach.
CompoundHeadroom == 1000
\* The categories whose interest varies in the compounding scenario: their
\* seed ceilings (400 and 800 rupees) keep every adjustment of the scenario
\* exact in thousandths.
CompoundMovers == {"pottery", "painting"}

\* The script runs cycle after cycle from an empty store, each cycle saved
\* and loaded by the next; one category's interest rises, holds or falls.
InitCompound ==
  /\ file = FileAbsent
  /\ now = 0
  /\ mi = [p \in Procs |-> NoInstance]
  /\ run = [p \in Procs |-> IdleRun(0)]
  /\ \E m \in CompoundMovers :
       env = [ procs |-> {"script"}, movers |-> {m}, cycles |-> MaxCompoundCycles,
               headroom |-> CompoundHeadroom, trendreq |-> {TRUE}, net |-> {TRUE},
               vary |-> SeriesOutcomes, faulty |-> {}, faults |-> {},
               twin |-> FALSE, rebuild |-> FALSE ]
  /\ agent = NoAgent
  /\ req = NoRequest
  /\ res = NoResult

NextCompound == \E p \in Procs : Refresh(p)

SpecCompound == InitCompound /\ [][NextCompound]_vars

\* hi after r rising and f falling adjustments, the falling ones first.
RECURSIVE Compounded(_, _, _)
Compounded(hi, r, f) ==
  IF f > 0 THEN Compounded((hi * 19) \div 20, r, f - 1)
  ELSE IF r > 0 THEN Compounded((hi * 11) \div 10, r - 1, 0)
  ELSE hi

\* C11: the ceiling the script holds for the varying category is its seed
\* ceiling times 1.1 for every rising adjustment and 0.95 for every falling
\* one applied so far, in whatever order and over however many cycles they
\* came; a category whose trend is stable keeps its ceiling.
C11_BandCompounds ==
  run["script"].pc # "idle" =>
    \A c \in CategorySet :
      mi["script"].cache.categories[c].range.hi =
        IF c \in env.movers
        THEN Compounded(SeedCeiling(c), run["script"].rose, run["script"].fell)
        ELSE SeedCeiling(c)

\* Pottery's ceiling after two rising cycles and a falling one between
\* them: 400 * 1.1 * 0.95 * 1.1.
C11_Witness ==
  /\ run["script"].pc = "returned"
  /\ run["script"].cycles = 2
  /\ run["script"].rose = 2
  /\ run["script"].fell = 1
  /\ mi["script"].cache.categories["pottery"].trend_direction = "rising"
  /\ mi["script"].cache.categories["pottery"].range.hi = 459800

\* ------------------------------------------------------------- staleness
\* The clock reading up to which time is let pass: past 7 days.
MaxClock == 30
\* Refresh cycles the script runs in the staleness scenario.
MaxStaleCycles == 2

\* Time passes by one tick (a quarter of a day) while no cycle is between
\* its first request and its return: a cycle lasts minutes.
Tick ==
  /\ now < MaxClock
  /\ \A p \in Procs : run[p].pc \in {"idle", "constructed", "returned"}
  /\ now' = now + 1
  /\ UNCHANGED <<file, mi, run, env, agent, req, res>>

\* What the store can hold when the staleness scenario starts: nothing, a
\* file that does not parse, an aggregate saved at time 0, and that
\* aggregate with its timestamp null or not an ISO date.
StaleFiles ==
  {FileAbsent, FileTruncated, FileJson(Serialize(RefreshedCache(SeriesSteady, 0)))}
    \cup {FileJson([Serialize(RefreshedCache(SeriesSteady, 0)) EXCEPT !.last_updated = t]) :
            t \in {NoTime, BadTime}}

\* The script constructs, refreshes and holds its instance while time
\* passes; the provider client may be missing and the save may fail.
InitStale ==
  /\ file \in StaleFiles
  /\ now = 0
  /\ mi = [p \in Procs |-> NoInstance]
  /\ run = [p \in Procs |-> IdleRun(0)]
  /\ env = [ procs |-> {"script"}, movers |-> {}, cycles |-> MaxStaleCycles,
             headroom |-> 0, trendreq |-> BOOLEAN, net |-> {TRUE},
             vary |-> {}, faulty |-> {}, faults |-> {"store"},
             twin |-> FALSE, rebuild |-> FALSE ]
  /\ agent = NoAgent
  /\ req = NoRequest
  /\ res = NoResult

NextStale ==
  \/ \E p \in Procs : Refresh(p)
  \/ Tick

SpecStale == InitStale /\ [][NextStale]_vars

\* C12: an instance constructed with no timestamp, or with one that does
\* not parse, is stale; the instance is not stale in the state in which
\* update_market_cache has just returned True; and after that return it is
\* stale only when its timestamp is 7 days old or more.
C12_StalenessLifecycle ==
  /\ [](\A p \in Procs :
         (run[p].pc = "constructed" /\ run[p].start.last_updated \in {NoTime, BadTime})
           => should_update_cache(mi[p].cache, now))
  /\ [][\A p \in Procs :
         (run[p].pc # "returned" /\ run'[p].pc = "returned" /\ run'[p].ret = "true")
           => ~should_update_cache(mi'[p].cache, now')]_vars
  /\ [](\A p \in Procs :
         (run[p].pc = "returned" /\ run[p].ret = "true"
            /\ should_update_cache(mi[p].cache, now))
           => /\ mi[p].cache.last_updated \notin {NoTime, BadTime}
              /\ now - mi[p].cache.last_updated >= StaleDays * TicksPerDay)

\* An instance that was constructed stale from a document whose timestamp
\* does not parse, refreshed, and is stale again seven days later.
C12_Witness ==
  /\ run["script"].pc = "returned"
  /\ run["script"].ret = "true"
  /\ run["script"].start.last_updated = BadTime
  /\ now - mi["script"].cache.last_updated = StaleDays * TicksPerDay
  /\ should_update_cache(mi["script"].cache, now)

\* ------------------------------------------------------------- persistence
\* C13: when update_market_cache has returned True, an instance constructed
\* from the store reads the aggregate the process holds: the same
\* categories, bands, trends, regional, seasonal and trending data and
\* timestamp.
C13_TrueMeansPersisted ==
  \A p \in Procs :
    (run[p].pc = "returned" /\ run[p].ret = "true") =>
      View(LoadCache(file, now)) = View(mi[p].cache)

ScoreSteps == 10

\* The scores tried, in thousandths: the grid from 0 to 10, the values next
\* to its ends, and a product of a region base and a trend multiplier.
ScoreValues ==
  {(10 * Milli * k) \div ScoreSteps : k \in 0..ScoreSteps} \cup {1, 7875, 9999}

\* The three scores by name.
Axes == {"heritage", "complexity", "market"}

\* Steps 4 and 5 of calculate_price run on a score triple, and on the
\* triple with the score `axis` raised to `up`.
Combine ==
  /\ req.kind = "scores"
  /\ res.kind = "none"
  /\ res' =
       LET OnRaised(h, c, m) ==
             [ kind |-> "scored",
               combined_score |-> CombinedScore(req.heritage, req.complexity, req.market),
               price_multiplier |->
                 PriceMultiplier(CombinedScore(req.heritage, req.complexity, req.market)),
               suggested_price |-> RawPrice(req.heritage, req.complexity, req.market),
               raised_price |-> RawPrice(h, c, m) ]
       IN OnRaised(IF req.axis = "heritage" THEN req.up ELSE req.heritage,
                  IF req.axis = "complexity" THEN req.up ELSE req.complexity,
                  IF req.axis = "market" THEN req.up ELSE req.market)
  /\ UNCHANGED <<file, now, mi, run, env, agent, req>>

\* A score triple, one of its scores and a value at least as high.
InitScore ==
  /\ file = FileAbsent
  /\ now = 0
  /\ mi = [p \in Procs |-> NoInstance]
  /\ run = [p \in Procs |-> IdleRun(0)]
  /\ env = NoRefresh
  /\ agent = NoAgent
  /\ \E h \in ScoreValues, c \in ScoreValues, m \in ScoreValues, axis \in Axes :
       \E up \in {v \in ScoreValues :
                    v >= (IF axis = "heritage" THEN h
                          ELSE IF axis = "complexity" THEN c ELSE m)} :
         req = [ kind |-> "scores", heritage |-> h, complexity |-> c, market |-> m,
                 axis |-> axis, up |-> up ]
  /\ res = NoResult

NextScore == Combine

SpecScore == InitScore /\ [][NextScore]_vars

\* C15: for scores between 0 and 10 the combined score is between 0 and 10
\* and the multiplier between 1.0 and 1.5, and the multiplier is 1.5 exactly
\* when the three scores are 10.
C15_CombinedAndMultiplierBounded ==
  res.kind = "scored" =>
    /\ res.combined_score >= 0
    /\ res.combined_score <= 10 * 10000
    /\ res.price_multiplier >= 200000
    /\ res.price_multiplier * 2 <= 200000 * 3
    /\ (res.price_multiplier * 2 = 200000 * 3)
         <=> (req.heritage = 10 * Milli /\ req.complexity = 10 * Milli
                /\ req.market = 10 * Milli)

\* The three scores are 10 and the multiplier is 1.5.
C15_Witness ==
  /\ res.kind = "scored"
  /\ req.heritage = 10 * Milli
  /\ req.complexity = 10 * Milli
  /\ req.market = 10 * Milli
  /\ res.combined_score = 10 * 10000
  /\ res.price_multiplier * 2 = 200000 * 3

\* C16: raising one score and holding the other two never lowers the raw
\* price.
C16_RawPriceMonotone ==
  res.kind = "scored" => res.suggested_price <= res.raised_price

\* The market score raised from 5 to 9 with heritage 2 and complexity 6: the
\* raw price rises.
C16_Witness ==
  /\ res.kind = "scored"
  /\ req.axis = "market"
  /\ req.heritage = 2 * Milli
  /\ req.complexity = 6 * Milli
  /\ req.market = 5 * Milli
  /\ req.up = 9 * Milli
  /\ res.suggested_price < res.raised_price
  /\ res.raised_price = 738875

\* ------------------------------------------------------------- the scorers
\* v is missing or a list of strings.
ListOfStr(v) ==
  v.t = "absent" \/ (v.t = "list" /\ \A k \in 1..Len(v.items) : v.items[k].t = "str")

\* The request has a string for description, and every key of its story is
\* missing or of its type: lists of strings, a string title, a dict overview
\* whose region is missing or a string.
WellTyped ==
  /\ req.desc.t = "str"
  /\ ListOfStr(req.story.cultural_elements)
  /\ ListOfStr(req.story.image_prompts)
  /\ req.story.story_title.t \in {"absent", "str"}
  /\ \/ req.story.overview.t = "absent"
     \/ req.story.overview.t = "dict" /\ req.story.overview.region.t \in {"absent", "str"}

\* C17: for every request and every cache the agent can hold, a score that
\* a scorer returns lies between 0 and 10, and on a well-typed request each
\* of the three scorers returns.
C17_ScoresInRange ==
  res.kind = "price" =>
    \A a \in Axes :
      /\ res.scores[a].ok => (res.scores[a].v >= 0 /\ res.scores[a].v <= 10 * Milli)
      /\ WellTyped => res.scores[a].ok

\* A market score of 10 where the region base times the category's trend
\* multiplier times the active seasonal multiplier is above 10.
C17_Witness ==
  /\ res.kind = "price"
  /\ WellTyped
  /\ agent.market_intel
  /\ res.scores["market"].ok
  /\ res.scores["market"].v = 10 * Milli
  /\ res.scores["heritage"].v = 10 * Milli
  /\ get_category_multiplier(agent.intel, "pottery") > 1000
  /\ get_active_seasonal_multiplier(agent.intel) > 1000
  /\ req.desc = DescPot

\* C18: on a well-typed request the complexity score is returned and lies
\* between 1 and 10; when the external call raises, the outcome is the
\* heuristic's, whatever the request; when the answer holds no number, the
\* score is at least the heuristic's; and the heuristic's score is at least 5.
C18_ComplexityFallsBack ==
  res.kind = "price" =>
    LET Compared(complexity, heuristic) ==
          /\ WellTyped =>
                /\ complexity.ok
                /\ complexity.v >= 1 * Milli
                /\ complexity.v <= 10 * Milli
                /\ heuristic.ok
                /\ heuristic.v >= 5 * Milli
          /\ complexity.ok => complexity.v >= 1 * Milli
          /\ req.ai.kind = "raise" => complexity = heuristic
          /\ (WellTyped /\ req.ai.kind = "text" /\ req.ai.number = NoNumber)
                => complexity.v >= heuristic.v
    IN Compared(res.scores["complexity"],
                heuristic_complexity_analysis(req.desc, req.story))

\* The external call raised and the score is the heuristic's 7.5: 5, the
\* hand-painted words, the time words.
C18_Witness ==
  /\ res.kind = "price"
  /\ req.ai = EstimateRaises
  /\ req.desc = DescPot
  /\ req.story = StoryFull
  /\ res.scores["complexity"].ok
  /\ res.scores["complexity"].v = 7500

\* ------------------------------------------------------------ the scenarios
\* The request of the first scenario has been priced: the description of
\* test_pricing_agent.py, a story whose region is Rajasthan, an estimate
\* that gives no number, and the seeded pottery band of 100 to 400.
Scenario1 ==
  /\ res.kind = "price"
  /\ req.desc = DescBluePot
  /\ req.story \in {StoryRajasthan, StoryJaipur}
  /\ req.ai \in {EstimateRaises, EstimateText(NoNumber)}
  /\ "pottery" \in DOMAIN agent.market_cache
  /\ agent.market_cache["pottery"].form = "ok"
  /\ agent.market_cache["pottery"].range.lo = 100 * Milli
  /\ agent.market_cache["pottery"].range.hi = 400 * Milli

\* C19 as stated: in the first scenario the heritage score is at least 6 and
\* the validation reason is within_market_range or below_market_minimum.
C19_ScenarioWithinBand ==
  Scenario1 =>
    /\ res.work.ok
    /\ res.work.v.heritage_score >= 6 * Milli
    /\ res.work.v.validation.adjustment_reason
         \in {"within_market_range", "below_market_minimum"}

\* C19: in the first scenario the heritage score is 2 for the region, or 3
\* when the story's prompts hold the word traditional; the description is
\* not read by the heritage scorer.  The raw price is above 1.2 times the
\* band's ceiling of 400, the reason is above_market_maximum and the price
\* emitted is the ceiling.
C19_ScenarioAboveBand ==
  Scenario1 =>
    /\ res.work.ok
    /\ res.work.v.heritage_score
         = (IF req.story = StoryJaipur THEN 3 * Milli ELSE 2 * Milli)
    /\ res.work.v.suggested_price * 10 > 400 * Milli * 12
    /\ res.work.v.validation.category = "pottery"
    /\ res.work.v.validation.validated
    /\ res.work.v.validation.adjustment_reason = "above_market_maximum"
    /\ res.work.v.validation.adjusted_price = 400 * Milli
    /\ res.out.ok
    /\ res.out.v.suggested_price = 400 * Milli

\* The first scenario priced on a store that was never written, the
\* external call raising.
C19_Witness ==
  /\ Scenario1
  /\ file = FileAbsent
  /\ req.story = StoryJaipur
  /\ req.ai = EstimateRaises
  /\ res.work.ok
  /\ res.work.v.validation.adjustment_reason = "above_market_maximum"

\* No word of any category occurs in the text that _detect_craft_category
\* reads for this description and story.
NamesNoCategory(desc, story) ==
  /\ desc.t = "str"
  /\ Joinable(Get(story.cultural_elements, EmptyList))
  /\ LET Unnamed(text) ==
           \A k \in 1..Len(CategoryWords) : ~AnyIn(CategoryWords[k].words, text)
     IN Unnamed(Lower(desc.s) \o <<" ">>
                  \o Lower(JoinPy(<<" ">>, Get(story.cultural_elements, EmptyList))))

\* C20 as stated: priced on a store that was never written, a product that
\* names no seeded category gets no_market_data, validated = false and the
\* raw price as adjusted price.
C20_UnseededOnFreshCache ==
  (res.kind = "price" /\ file = FileAbsent /\ res.work.ok
     /\ NamesNoCategory(req.desc, req.story)) =>
    /\ res.work.v.validation.adjustment_reason = "no_market_data"
    /\ ~res.work.v.validation.validated
    /\ res.work.v.validation.adjusted_price = res.work.v.suggested_price

\* C20: a priced request gets no_market_data exactly when the category
\* detected for it is missing from the agent's market cache, and then
\* validated is false and the adjusted price is the raw price.  The detected
\* category is always one of the seeded ones, pottery when the product names
\* none, so on a store that was never written every seeded category is
\* cached and no request gets no_market_data.
C20_NoMarketData ==
  (res.kind = "price" /\ res.work.ok) =>
    LET Settled(validation, category) ==
          /\ category.ok
          /\ category.v \in CategorySet
          /\ NamesNoCategory(req.desc, req.story) => category.v = "pottery"
          /\ (validation.adjustment_reason = "no_market_data")
               <=> (category.v \notin DOMAIN agent.market_cache)
          /\ validation.adjustment_reason = "no_market_data" =>
               /\ ~validation.validated
               /\ validation.category = category.v
               /\ validation.adjusted_price = res.work.v.suggested_price
               /\ validation.original_price = res.work.v.suggested_price
          /\ file = FileAbsent => CategorySet \subseteq DOMAIN agent.market_cache
          /\ CategorySet \subseteq DOMAIN agent.market_cache =>
               validation.adjustment_reason # "no_market_data"
    IN Settled(res.work.v.validation, detect_craft_category(req.desc, req.story))

\* calculate_price gave no_market_data: the store had lost its pottery
\* record and the product names no category.
C20_Witness ==
  /\ res.kind = "price"
  /\ res.work.ok
  /\ file # FileAbsent
  /\ "pottery" \notin DOMAIN agent.market_cache
  /\ NamesNoCategory(req.desc, req.story)
  /\ res.work.v.validation.adjustment_reason = "no_market_data"
  /\ ~res.work.v.validation.validated
  /\ res.out.ok

\* ------------------------------------------------------------ validating twice
\* C21: when the validator returns within_market_range for a price, the
\* validator called again on the adjusted price against the same cache
\* returns the same price and within_market_range.
C21_WithinIsIdempotent ==
  (res.kind = "validation" /\ res.out.ok
     /\ res.out.v.adjustment_reason = "within_market_range") =>
    /\ res.again.ok
    /\ res.again.v.adjusted_price = res.out.v.adjusted_price
    /\ res.again.v.adjusted_price = req.raw
    /\ res.again.v.adjustment_reason = "within_market_range"
    /\ res.again.v.category = res.out.v.category
    /\ res.again.v.validated

\* A price in the tolerance above pottery's ceiling, validated twice.
C21_Witness ==
  /\ res.kind = "validation"
  /\ req.desc = DescPot
  /\ req.raw > 0
  /\ res.out.ok
  /\ res.out.v.adjustment_reason = "within_market_range"
  /\ res.out.v.adjusted_price > agent.market_cache["pottery"].range.hi
  /\ res.again.ok
  /\ res.again.v.adjustment_reason = "within_market_range"

\* ------------------------------------------------------------ the category
\* C22: for every description and cultural elements that make a text, the
\* detected category is one of the eight, scanned in the order pottery,
\* embroidery, jewelry, textile, woodwork, metalwork, painting, leather: the
\* first one a word of which occurs in the text, pottery when none does.
\* The validator reports that category, and the market score is the one
\* computed with that category's trend multiplier.
C22_CategoryDetection ==
  (res.kind = "price" /\ req.desc.t = "str"
     /\ Joinable(Get(req.story.cultural_elements, EmptyList))) =>
    LET ScoreWith(base, trend, seasonal) ==
          Min(10 * Milli,
              IF seasonal > 1000
              THEN (((base * trend) \div 1000) * seasonal) \div 1000
              ELSE (base * trend) \div 1000)
        Decided(category, matches) ==
          /\ [k \in 1..Len(CategoryWords) |-> CategoryWords[k].category]
               = << "pottery", "embroidery", "jewelry", "textile",
                    "woodwork", "metalwork", "painting", "leather" >>
          /\ category.ok
          /\ category.v \in CategorySet
          /\ matches = {} => category.v = "pottery"
          /\ \A k \in matches :
               (\A j \in matches : k <= j) => category.v = CategoryWords[k].category
          /\ (res.work.ok
                /\ res.work.v.validation.adjustment_reason # "validation_error")
               => res.work.v.validation.category = category.v
          /\ (agent.market_intel /\ res.scores["market"].ok
                /\ (category.v \in DOMAIN agent.intel.categories
                      => agent.intel.categories[category.v].form = "ok"))
               => res.scores["market"].v
                    = ScoreWith(RegionalBase(RegionLower(req.story).v, 1),
                                get_category_multiplier(agent.intel, category.v),
                                get_active_seasonal_multiplier(agent.intel))
        Matched(text) ==
          {k \in 1..Len(CategoryWords) : AnyIn(CategoryWords[k].words, text)}
    IN Decided(detect_craft_category(req.desc, req.story),
               Matched(Lower(req.desc.s) \o <<" ">>
                         \o Lower(JoinPy(<<" ">>,
                                          Get(req.story.cultural_elements, EmptyList)))))

\* A product that names embroidery and leather, priced on a cache where the
\* two have different trend multipliers: the validator reports embroidery.
C22_Witness ==
  /\ res.kind = "price"
  /\ req.desc.t = "str"
  /\ AnyIn(CategoryWords[2].words, Lower(req.desc.s))
  /\ AnyIn(CategoryWords[8].words, Lower(req.desc.s))
  /\ agent.market_intel
  /\ get_category_multiplier(agent.intel, "embroidery")
       # get_category_multiplier(agent.intel, "leather")
  /\ res.work.ok
  /\ res.work.v.validation.category = "embroidery"
  /\ res.scores["market"].ok

\* ------------------------------------------------------------ failed requests
\* C23: a category whose request raised in a cycle keeps the record it had
\* when the cycle started: trend score, trend direction, band and timestamp.
C23_FailedFetchKeepsRecord ==
  \A p \in Procs :
    \A c \in run[p].failed \cap DOMAIN run[p].start.categories :
      mi[p].cache.categories[c] = run[p].start.categories[c]

\* ------------------------------------------------------------ the technique bonus
\* C24: on a well-typed request the complexity score is
\* min(10, base + min(3, 0.5 * matched technique keywords)), where base is
\* the clamped number of the estimate, or the heuristic's score when the
\* estimate holds no number or the external call raised.
C24_BonusOnEveryPath ==
  (res.kind = "price" /\ WellTyped) =>
    LET Expected(base, full_text) ==
          /\ res.scores["complexity"].ok
          /\ res.scores["complexity"].v
               = Min(10 * Milli, base + Min(3 * Milli, 500 * TechniqueCount(full_text)))
    IN Expected(IF req.ai.kind = "text" /\ req.ai.number # NoNumber
                THEN Max(1 * Milli, Min(10 * Milli, req.ai.number))
                ELSE heuristic_complexity_analysis(req.desc, req.story).v,
                Lower(req.desc.s) \o <<" ">>
                  \o Lower(JoinPy(<<" ">>, Get(req.story.image_prompts, EmptyList)))
                  \o <<" ">>
                  \o Lower(JoinPy(<<" ">>, Get(req.story.cultural_elements, EmptyList))))

\* ------------------------------------------------------------ the interest series
\* The weekly interest values drawn for a series.
InterestValues == {0, 2, 50, 100}

\* The interest series tried: eight values, the first four alike.
InterestSeries ==
  { <<a, a, a, a, w1, w2, w3, w4>> :
      a \in InterestValues, w1 \in InterestValues, w2 \in InterestValues,
      w3 \in InterestValues, w4 \in InterestValues }

RECURSIVE SumSeq(_)
SumSeq(q) == IF q = <<>> THEN 0 ELSE Head(q) + SumSeq(Tail(q))

\* Series.mean(), in hundredths.
MeanOf(q) == (SumSeq(q) * Centi) \div Len(q)

\* Series.tail(4)
Tail4(q) == SubSeq(q, Len(q) - 3, Len(q))

\* fetch_craft_trends on a non-empty frame, and the category loop's body
\* storing what it returned in pottery's seed record.
StoreTrend ==
  /\ req.kind = "series"
  /\ res.kind = "none"
  /\ res' =
       LET Stored(trend_data) ==
             [ kind |-> "trend",
               data |-> trend_data,
               record |-> UpdateCategory(DefaultCache(0), "pottery", trend_data,
                                         1).categories["pottery"] ]
       IN Stored(fetch_craft_trends(TRUE, Series(MeanOf(Tail4(req.series)),
                                                 MeanOf(req.series))))
  /\ UNCHANGED <<file, now, mi, run, env, agent, req>>

\* A non-empty interest series with values in 0..100.
InitTrend ==
  /\ file = FileAbsent
  /\ now = 0
  /\ mi = [p \in Procs |-> NoInstance]
  /\ run = [p \in Procs |-> IdleRun(0)]
  /\ env = NoRefresh
  /\ agent = NoAgent
  /\ \E q \in InterestSeries : req = [kind |-> "series", series |-> q]
  /\ res = NoResult

NextTrend == StoreTrend

SpecTrend == InitTrend /\ [][NextTrend]_vars

\* C25: for a non-empty series with values in 0..100 the stored trend score
\* is the recent mean cut to an integer, whatever the mean, so it lies in
\* 0..100; the stored direction is rising when the recent mean is above 1.15
\* times the overall mean, falling when below 0.85 times it, else stable.
C25_TrendFromSeries ==
  res.kind = "trend" =>
    LET Derived(recent, overall) ==
          /\ res.record.trend_score = recent \div Centi
          /\ res.record.trend_score \in 0..100
          /\ res.record.trend_direction =
               (IF recent * 100 > overall * 115 THEN "rising"
                ELSE IF recent * 100 < overall * 85 THEN "falling"
                ELSE "stable")
    IN Derived(MeanOf(Tail4(req.series)), MeanOf(req.series))

\* ------------------------------------------------------------ pacing
\* C26: in a cycle no two provider requests are issued without a sleep
\* between them.
C26_RequestsArePaced == \A p \in Procs : ~run[p].b2b

\* ------------------------------------------------------------ the phases
\* The steps from one position of a cycle to the next.
PhaseOrder ==
  { <<"idle", "constructed">>, <<"constructed", "categories">>,
    <<"categories", "regions">>, <<"regions", "seasonal">>,
    <<"seasonal", "trending">>, <<"trending", "save_open">>,
    <<"save_open", "save_write">>, <<"save_open", "returned">>,
    <<"save_write", "returned">>, <<"returned", "idle">> }

BandProducts ==
  {DescPot, PyStr(<<"B","r","a","s","s"," ","l","a","m","p">>)}

\* C28: for an agent constructed on the aggregate a cycle has just saved,
\* when the validator returns validated = true the adjusted price lies
\* between the detected category's floor and 1.2 times its ceiling, and the
\* validator called again on the adjusted price returns it with
\* within_market_range.
C28_AdjustedPriceInBand ==
  (file.kind = "json" /\ \E p \in Procs : run[p].pc = "returned") =>
    LET Settled(first, second, market_cache) ==
          (first.ok /\ first.v.validated) =>
            /\ first.v.adjusted_price >= market_cache[first.v.category].range.lo
            /\ first.v.adjusted_price * 10
                 <= market_cache[first.v.category].range.hi * 12
            /\ second.ok
            /\ second.v.adjusted_price = first.v.adjusted_price
            /\ second.v.adjustment_reason = "within_market_range"
        Twice(first, d, market_cache) ==
          Settled(first, Revalidated(first, d, StoryEmpty, market_cache), market_cache)
        Served(ag) ==
          \A d \in BandProducts, raw \in RawPrices :
            Twice(validate_with_market_cache(raw, d, StoryEmpty, ag.market_cache),
                  d, ag.market_cache)
    IN Served(PricingAgent(file, now))

\* ------------------------------------------------------------ what a cycle leaves alone
\* Refresh cycles the script runs in the frame scenario.
MaxFrameCycles == 2

\* What the store holds when the frame scenario starts: nothing, the
\* aggregate of an earlier cycle, or that aggregate without pottery.
FrameFiles ==
  { FileAbsent,
    FileJson(Serialize(RefreshedCache(SeriesRising, 0))),
    FileJson(WithoutCategory(Serialize(RefreshedCache(SeriesRising, 0)), "pottery")) }

\* The script runs cycle after cycle; the interest of pottery and of one
\* other category varies.  env.missing holds the tracked categories the
\* store lacked at the start.
InitFrame ==
  /\ file \in FrameFiles
  /\ now = 0
  /\ mi = [p \in Procs |-> NoInstance]
  /\ run = [p \in Procs |-> IdleRun(0)]
  /\ \E m \in CategorySet \ {"pottery"} :
       env = [ procs |-> {"script"}, movers |-> {"pottery", m},
               cycles |-> MaxFrameCycles,
               headroom |-> CompoundHeadroom, trendreq |-> {TRUE}, net |-> {TRUE},
               vary |-> SeriesOutcomes, faulty |-> {"pottery"}, faults |-> {},
               twin |-> FALSE, rebuild |-> FALSE,
               missing |-> CategorySet \ DOMAIN LoadCache(file, 0).categories ]
  /\ agent = NoAgent
  /\ req = NoRequest
  /\ res = NoResult

NextFrame == \E p \in Procs : Refresh(p)

SpecFrame == InitFrame /\ [][NextFrame]_vars

\* C29: in every cache a refreshing process holds and in every aggregate it
\* saves, the category keys are the ones loaded, so a tracked category the
\* store lacked is still missing, and every record's floor, average markup
\* and demand level are the seed's.
C29_RefreshFrame ==
  LET Kept(categories, loaded) ==
        /\ DOMAIN categories = DOMAIN loaded
        /\ DOMAIN categories = CategorySet \ env.missing
        /\ \A c \in DOMAIN categories :
             /\ categories[c].range.lo = loaded[c].range.lo
             /\ categories[c].avg_markup = loaded[c].avg_markup
             /\ categories[c].demand = loaded[c].demand
             /\ categories[c].range.lo = SeedRange[c][1] * Milli
             /\ categories[c].avg_markup = SeedMarkup[c] * Milli
             /\ categories[c].demand = SeedDemand[c]
  IN /\ \A p \in env.procs :
          run[p].pc # "idle" => Kept(mi[p].cache.categories, run[p].start.categories)
     /\ file.kind = "json" =>
          Kept(file.doc.categories, file.doc.categories)

\* The second cycle has saved an aggregate that still lacks pottery, with
\* another category's ceiling and trend data changed.
C29_Witness ==
  /\ run["script"].cycles = 1
  /\ run["script"].pc = "returned"
  /\ run["script"].ret = "true"
  /\ env.missing = {"pottery"}
  /\ file.kind = "json"
  /\ "pottery" \notin DOMAIN file.doc.categories
  /\ \E c \in DOMAIN file.doc.categories :
       /\ file.doc.categories[c].trend_direction = "falling"
       /\ file.doc.categories[c].range.hi # run["script"].start.categories[c].range.hi

\* ------------------------------------------------------------ the material cost
\* C30: the result of calculate_price is the same for every material cost,
\* the description, the story, the estimate, the month and the agent's cache
\* being the same: price, range, justification, probability, validation and
\* breakdown.
C30_MaterialCostIgnored ==
  res.kind = "price" =>
    \A mc \in MaterialCosts \ {req.material_cost} :
      calculate_price(req.desc, req.story, mc, req.ai, agent, req.month) = res.out

\* A request with a material cost of 500 rupees was priced at pottery's
\* ceiling, below the material cost plus the base markup.
C30_Witness ==
  /\ res.kind = "price"
  /\ req.material_cost = 500 * Milli
  /\ res.out.ok
  /\ res.out.v.market_validation.category = "pottery"
  /\ res.out.v.market_validation.adjustment_reason = "above_market_maximum"
  /\ res.out.v.suggested_price < req.material_cost + base_markup * Milli
=============================================================================
